---- MODULE Spec2Model ----
(***************************************************************************)
(* The core tracker (src/src/core/mod.rs): the Tracker facade over the     *)
(* in-memory torrent repository, the key store, the whitelist and the      *)
(* persistence port.                                                       *)
(*                                                                         *)
(* The facade (announce, scrape, authenticate, authorize, cleanup, key and *)
(* whitelist management, IP assignment) is translated from mod.rs.  The    *)
(* torrent repository (torrust_tracker_torrent_repository), the auth       *)
(* module and the database drivers are not part of mod.rs: their           *)
(* operators below follow the specification's description of them, and,    *)
(* where the tests of mod.rs pin their behaviour down, those tests.        *)
(***************************************************************************)
EXTENDS Integers, Sequences, FiniteSets, TLC

VARIABLES
    config,       \* Tracker.config (immutable after construction)
    now,          \* CurrentClock::now(), in seconds
    torrents,     \* Tracker.torrents: info_hash -> [peers, downloaded]
    dbTorrents,   \* persisted torrent aggregates: info_hash -> downloaded
    keys,         \* Tracker.keys: key -> valid_until
    dbKeys,       \* persisted key table
    whitelist,    \* Tracker.whitelist
    dbWhitelist,  \* persisted whitelist table
    last,         \* the last request handled, with its arguments and response
    calls,        \* the calls in flight: thread -> the call and the step it is at
    history       \* what the announces and cleanups so far were, where it is recorded

vars == <<config, now, torrents, dbTorrents, keys, dbKeys, whitelist, dbWhitelist, last, calls,
          history>>

(***************************************************************************)
(* Bounds and domains.                                                     *)
(***************************************************************************)
MaxTime == 2            \* the clock runs over 0..MaxTime
MaxDownloaded == 2      \* cap of a swarm's downloaded counter
MaxCrowd == 76          \* peers of the large swarm (more than TORRENT_PEERS_LIMIT + 1)
MaxScrapeLen == 2       \* info-hashes per scrape request
MaxDuration == 3        \* the largest time that can be represented (u64::MAX seconds in the code)

TORRENT_PEERS_LIMIT == 74

\* Option<T>: None, or Some(x).
None == <<>>

Some(x) == <<x>>

InfoHashes == {"h1", "h2"}
Events == {"Started", "Updated", "Completed", "Stopped"}

\* IP addresses: version, first and last octet (first and last group for v6).
IPv4(a, d) == [v |-> 4, a |-> a, d |-> d]
IPv6(a, d) == [v |-> 6, a |-> a, d |-> d]

\* std::net::IpAddr::is_loopback: 127.0.0.0/8 and ::1.
is_loopback(ip) ==
    IF ip.v = 4 THEN ip.a = 127 ELSE ip.a = 0 /\ ip.d = 1

SocketAddr(ip, port) == [ip |-> ip, port |-> port]

Times == 0..MaxTime

(***************************************************************************)
(* Finite maps (HashMap, BTreeMap, database tables) as functions.          *)
(***************************************************************************)
EmptyMap == [x \in {} |-> 0]

Put(f, k, v) == [x \in (DOMAIN f) \cup {k} |-> IF x = k THEN v ELSE f[x]]

Del(f, k) == [x \in (DOMAIN f) \ {k} |-> f[x]]

Values(f) == {f[x] : x \in DOMAIN f}

Range(seq) == {seq[i] : i \in DOMAIN seq}

PeersOf(ts, h) == IF h \in DOMAIN ts THEN ts[h].peers ELSE EmptyMap

DownloadedOf(ts, h) == IF h \in DOMAIN ts THEN ts[h].downloaded ELSE 0

(***************************************************************************)
(* Peers.  A peer::Peer is [peer_id, peer_addr, updated, left, event]; the *)
(* byte counters uploaded and downloaded are carried along by the tracker  *)
(* and read by none of its operations, so they are left out.               *)
(***************************************************************************)
Peer(id, addr, updated, left, event) ==
    [peer_id |-> id, peer_addr |-> addr, updated |-> updated, left |-> left, event |-> event]

\* A change_ip that leaves the peer as the client sent it.
change_ip_kept(peer, ip) == peer

\* peer.change_ip(ip)
change_ip(peer, ip) == [peer EXCEPT !.peer_addr.ip = ip]

SwarmMetadata(complete, downloaded, incomplete) ==
    [complete |-> complete, downloaded |-> downloaded, incomplete |-> incomplete]

zeroed == SwarmMetadata(0, 0, 0)

(***************************************************************************)
(* The torrent repository.                                                 *)
(***************************************************************************)
\* A peer table keyed by the socket address.
peer_list_key_addr(peer) == peer.peer_addr

\* The key of a peer in a swarm's peer table.
peer_list_key(peer) == peer.peer_id

NewEntry(downloaded) == [peers |-> EmptyMap, downloaded |-> downloaded]

\* A peer is active when updated >= now - max_peer_timeout.
is_active(peer) == peer.updated >= now - config.tracker_policy.max_peer_timeout

\* A swarm metadata whose leechers are the active peers with left >= 0.
entry_get_swarm_metadata_off_by_one(entry) ==
    SwarmMetadata(
        Cardinality({k \in DOMAIN entry.peers : is_active(entry.peers[k]) /\ entry.peers[k].left = 0}),
        entry.downloaded,
        Cardinality({k \in DOMAIN entry.peers : is_active(entry.peers[k]) /\ entry.peers[k].left >= 0}))

\* Entry::get_swarm_metadata: active seeders, stored counter, active leechers.
entry_get_swarm_metadata(entry) ==
    SwarmMetadata(
        Cardinality({k \in DOMAIN entry.peers : is_active(entry.peers[k]) /\ entry.peers[k].left = 0}),
        entry.downloaded,
        Cardinality({k \in DOMAIN entry.peers : is_active(entry.peers[k]) /\ entry.peers[k].left > 0}))

\* Repository::get_swarm_metadata: Option<SwarmMetadata>.
repo_get_swarm_metadata(ts, h) ==
    IF h \in DOMAIN ts THEN Some(entry_get_swarm_metadata(ts[h])) ELSE None

\* An upsert that counts every Completed announce, known peer or not.
entry_upsert_peer_every_completed(entry, peer) ==
    [peers |-> Put(entry.peers, peer_list_key(peer), peer),
     downloaded |-> IF peer.event = "Completed"
                    THEN entry.downloaded + 1 ELSE entry.downloaded]

\* Entry::upsert_peer: insert or replace the peer under its key; downloaded
\* grows by one when the event is Completed and the key was already present.
entry_upsert_peer(entry, peer) ==
    [peers |-> Put(entry.peers, peer_list_key(peer), peer),
     downloaded |-> IF peer.event = "Completed" /\ peer_list_key(peer) \in DOMAIN entry.peers
                    THEN entry.downloaded + 1
                    ELSE entry.downloaded]

\* Repository::upsert_peer: the entry is created on the first upsert.
repo_upsert_peer(ts, h, peer) ==
    Put(ts, h, entry_upsert_peer(IF h \in DOMAIN ts THEN ts[h] ELSE NewEntry(0), peer))

\* The subsets of S with k elements.
RECURSIVE kSubsets(_, _)
kSubsets(S, k) ==
    IF k = 0 THEN {{}}
    ELSE IF Cardinality(S) < k THEN {}
    ELSE LET x == CHOOSE y \in S : TRUE
         IN  {T \cup {x} : T \in kSubsets(S \ {x}, k - 1)} \cup kSubsets(S \ {x}, k)

\* The peer lists with at most `limit` of the peers in `cands`: all of them
\* when they fit, and otherwise any `limit` of them (the order of selection
\* is not specified).
Take(cands, n) ==
    IF Cardinality(cands) <= n THEN {cands}
    ELSE {cands \ X : X \in kSubsets(cands, Cardinality(cands) - n)}

\* Entry::get_peers_for_client(addr, Some(limit)): the possible results.
get_peers_for_client(entry, addr, n) ==
    Take({p \in Values(entry.peers) : p.peer_addr # addr}, n)

\* Entry::get_peers(Some(limit)): the possible results.
get_peers(entry, n) == Take(Values(entry.peers), n)

\* Repository::remove_inactive_peers(cutoff).
remove_inactive_peers(ts, cutoff) ==
    [h \in DOMAIN ts |->
        [ts[h] EXCEPT !.peers =
            [k \in {x \in DOMAIN ts[h].peers : ts[h].peers[x].updated >= cutoff} |-> ts[h].peers[k]]]]

\* Repository::remove_peerless_torrents(policy): a swarm without active
\* peers goes, unless its downloaded counter is persistent and not zero.
meets_retaining_policy(entry, policy) ==
    \/ \E k \in DOMAIN entry.peers : is_active(entry.peers[k])
    \/ policy.persistent_torrent_completed_stat /\ entry.downloaded > 0

remove_peerless_torrents(ts, policy) ==
    [h \in {x \in DOMAIN ts : meets_retaining_policy(ts[x], policy)} |-> ts[h]]

\* Repository::import_persistent(records): create or update the entry with
\* the persisted counter; the peers of an existing entry stay.
import_persistent(ts, records) ==
    [h \in (DOMAIN ts) \cup (DOMAIN records) |->
        IF h \notin DOMAIN records THEN ts[h]
        ELSE IF h \in DOMAIN ts THEN [ts[h] EXCEPT !.downloaded = records[h]]
        ELSE NewEntry(records[h])]

\* The sum of f[x] over the x of the finite set S.
RECURSIVE SumOver(_, _)
SumOver(S, f) ==
    IF S = {} THEN 0
    ELSE LET x == CHOOSE y \in S : TRUE
         IN  f[x] + SumOver(S \ {x}, f)

\* Metrics that count the swarms with peers only.
repo_get_metrics_peerless_skipped(ts) ==
    LET stats == [h \in DOMAIN ts |-> entry_get_swarm_metadata(ts[h])]
    IN  [complete |-> SumOver(DOMAIN ts, [h \in DOMAIN ts |-> stats[h].complete]),
         downloaded |-> SumOver(DOMAIN ts, [h \in DOMAIN ts |-> stats[h].downloaded]),
         incomplete |-> SumOver(DOMAIN ts, [h \in DOMAIN ts |-> stats[h].incomplete]),
         torrents |-> Cardinality({h \in DOMAIN ts : ts[h].peers # EmptyMap})]

\* Repository::get_metrics: the swarms are iterated and the fields of their
\* metadata summed; torrents counts the swarms.
repo_get_metrics(ts) ==
    LET stats == [h \in DOMAIN ts |-> entry_get_swarm_metadata(ts[h])]
    IN  [complete |-> SumOver(DOMAIN ts, [h \in DOMAIN ts |-> stats[h].complete]),
         downloaded |-> SumOver(DOMAIN ts, [h \in DOMAIN ts |-> stats[h].downloaded]),
         incomplete |-> SumOver(DOMAIN ts, [h \in DOMAIN ts |-> stats[h].incomplete]),
         torrents |-> Cardinality(DOMAIN ts)]

(***************************************************************************)
(* The record of the announces and cleanups (a history variable; the       *)
(* tracker keeps no such record).  Where it is kept, it holds for each     *)
(* info-hash the latest announce of each peer id and of each socket        *)
(* address, `since` telling whether it came after the latest cleanup, and  *)
(* the cutoff of the latest cleanup.                                       *)
(***************************************************************************)
NotRecorded == [recorded |-> FALSE]

NothingYet ==
    [recorded |-> TRUE, cutoff |-> None,
     by_id |-> [h \in InfoHashes |-> EmptyMap],
     by_addr |-> [h \in InfoHashes |-> EmptyMap]]

AfterAnnounce(past, h, peer) ==
    IF ~past.recorded THEN past
    ELSE [past EXCEPT
            !.by_id[h] = Put(@, peer.peer_id, [updated |-> peer.updated, since |-> TRUE]),
            !.by_addr[h] = Put(@, peer.peer_addr, [updated |-> peer.updated, since |-> TRUE])]

AfterCleanup(past, cutoff) ==
    IF ~past.recorded THEN past
    ELSE [recorded |-> TRUE, cutoff |-> Some(cutoff),
          by_id |-> [h \in InfoHashes |->
                       [k \in DOMAIN past.by_id[h] |-> [past.by_id[h][k] EXCEPT !.since = FALSE]]],
          by_addr |-> [h \in InfoHashes |->
                       [k \in DOMAIN past.by_addr[h] |-> [past.by_addr[h][k] EXCEPT !.since = FALSE]]]]

(***************************************************************************)
(* The facade: pure parts.                                                 *)
(***************************************************************************)
PeersWantedAll == [only |-> FALSE, amount |-> 0]

PeersWantedOnly(n) == [only |-> TRUE, amount |-> n]

\* PeersWanted::limit
limit(peers_wanted) ==
    IF peers_wanted.only THEN peers_wanted.amount ELSE TORRENT_PEERS_LIMIT

Max(a, b) == IF a >= b THEN a ELSE b

\* An assignment that takes the external IP only when it is of the IP
\* version of the client's.
assign_ip_address_to_peer_same_version(remote_client_ip, tracker_external_ip) ==
    IF /\ tracker_external_ip # None
       /\ is_loopback(remote_client_ip)
       /\ tracker_external_ip[1].v = remote_client_ip.v
    THEN tracker_external_ip[1]
    ELSE remote_client_ip

assign_ip_address_to_peer(remote_client_ip, tracker_external_ip) ==
    IF tracker_external_ip # None /\ is_loopback(remote_client_ip)
    THEN tracker_external_ip[1]
    ELSE remote_client_ip

is_listed == config.listed

is_private == config.private

is_info_hash_whitelisted(h) == h \in whitelist

\* The results of Tracker::authorize: Ok(()), and the error with the
\* info-hash it carries.
AuthorizeOk == [variant |-> "Ok"]

TorrentNotWhitelisted(h) == [variant |-> "TorrentNotWhitelisted", info_hash |-> h]

is_ok(result) == result.variant = "Ok"

\* An authorization that consults the whitelist on trackers that are not listed too.
authorize_always_listed(h) ==
    IF is_info_hash_whitelisted(h) THEN AuthorizeOk ELSE TorrentNotWhitelisted(h)

\* Tracker::authorize
authorize(h) ==
    IF ~is_listed THEN AuthorizeOk
    ELSE IF is_info_hash_whitelisted(h) THEN AuthorizeOk
    ELSE TorrentNotWhitelisted(h)

\* Tracker::get_swarm_metadata
get_swarm_metadata(h) ==
    IF h \in DOMAIN torrents THEN entry_get_swarm_metadata(torrents[h]) ELSE zeroed

\* A peer lookup that does not exclude the client.
get_peers_for_unfiltered(ts, h, peer, lim) ==
    IF h \notin DOMAIN ts THEN {{}}
    ELSE get_peers(ts[h], Max(lim, TORRENT_PEERS_LIMIT))

\* A peer lookup that gives a client no more peers than it asks for.
get_peers_for_as_wanted(ts, h, peer, lim) ==
    IF h \notin DOMAIN ts THEN {{}}
    ELSE get_peers_for_client(ts[h], peer.peer_addr,
                              IF lim <= TORRENT_PEERS_LIMIT THEN lim ELSE TORRENT_PEERS_LIMIT)

\* Tracker::get_peers_for: the possible results.
get_peers_for(ts, h, peer, lim) ==
    IF h \notin DOMAIN ts THEN {{}}
    ELSE get_peers_for_client(ts[h], peer.peer_addr, Max(lim, TORRENT_PEERS_LIMIT))

\* A peer lookup without the limit.
get_torrent_peers_unlimited(h) ==
    IF h \notin DOMAIN torrents THEN {{}}
    ELSE {Values(torrents[h].peers)}

\* Tracker::get_torrent_peers: the possible results.
get_torrent_peers(h) ==
    IF h \notin DOMAIN torrents THEN {{}}
    ELSE get_peers(torrents[h], TORRENT_PEERS_LIMIT)

\* Tracker::get_torrent_peers as a call of the facade.
GetTorrentPeers ==
    \E h \in InfoHashes :
        \E peers \in get_torrent_peers(h) :
            /\ last' = [op |-> "get_torrent_peers", info_hash |-> h, peers |-> peers, now |-> now]
            /\ UNCHANGED <<config, now, torrents, dbTorrents, keys, dbKeys, whitelist, dbWhitelist,
                           calls, history>>

\* Tracker::get_torrents_metrics
get_torrents_metrics == repo_get_metrics(torrents)

GetTorrentsMetrics ==
    /\ last' = [op |-> "get_torrents_metrics", metrics |-> get_torrents_metrics, now |-> now]
    /\ UNCHANGED <<config, now, torrents, dbTorrents, keys, dbKeys, whitelist, dbWhitelist,
                   calls, history>>

\* A scrape that leaves unauthorized torrents out of its answer.
scrape_skipping(info_hashes) ==
    [h \in {x \in {info_hashes[i] : i \in DOMAIN info_hashes} : is_ok(authorize(x))} |->
        get_swarm_metadata(h)]

\* A scrape that does not consult the whitelist.
scrape_unfiltered(info_hashes) ==
    [h \in {info_hashes[i] : i \in DOMAIN info_hashes} |-> get_swarm_metadata(h)]

\* A scrape with the two arms of the authorization match exchanged.
scrape_swapped(info_hashes) ==
    [h \in {info_hashes[i] : i \in DOMAIN info_hashes} |->
        IF is_ok(authorize(h)) THEN zeroed ELSE get_swarm_metadata(h)]

\* ScrapeData.files for a request: one entry per requested info-hash.
scrape(info_hashes) ==
    [h \in {info_hashes[i] : i \in DOMAIN info_hashes} |->
        IF is_ok(authorize(h)) THEN get_swarm_metadata(h) ELSE zeroed]

(***************************************************************************)
(* The facade: operations.  Each action is one call of the facade, from    *)
(* its first statement to its return; `last` keeps the call and what it    *)
(* returned.                                                               *)
(***************************************************************************)
unwrap_or(opt, default) == IF opt = None THEN default ELSE opt[1]

\* Tracker::persist_stats: the outcomes of the save ("none": no save was
\* attempted; a failed save is dropped).
persist_stats(h, swarm_metadata) ==
    IF config.tracker_policy.persistent_torrent_completed_stat
    THEN {[save |-> "ok", db |-> Put(dbTorrents, h, swarm_metadata.downloaded)],
          [save |-> "failed", db |-> dbTorrents]}
    ELSE {[save |-> "none", db |-> dbTorrents]}

\* An upsert that an info-hash the tracker does not authorize is refused.
upsert_peer_and_get_stats_if_authorized(h, peer) ==
    LET swarm_metadata_before == unwrap_or(repo_get_swarm_metadata(torrents, h), zeroed)
        upserted == IF is_ok(authorize(h)) THEN repo_upsert_peer(torrents, h, peer) ELSE torrents
        swarm_metadata_after == unwrap_or(repo_get_swarm_metadata(upserted, h), zeroed)
    IN  [torrents |-> upserted,
         stats |-> swarm_metadata_after,
         saves |-> IF swarm_metadata_before # swarm_metadata_after
                   THEN persist_stats(h, swarm_metadata_after)
                   ELSE {[save |-> "none", db |-> dbTorrents]}]

\* Tracker::upsert_peer_and_get_stats: the repository after the upsert, the
\* stats returned, and the outcomes of the save.
upsert_peer_and_get_stats(h, peer) ==
    LET swarm_metadata_before == unwrap_or(repo_get_swarm_metadata(torrents, h), zeroed)
        upserted == repo_upsert_peer(torrents, h, peer)
        swarm_metadata_after == unwrap_or(repo_get_swarm_metadata(upserted, h), zeroed)
    IN  [torrents |-> upserted,
         stats |-> swarm_metadata_after,
         saves |-> IF swarm_metadata_before # swarm_metadata_after
                   THEN persist_stats(h, swarm_metadata_after)
                   ELSE {[save |-> "none", db |-> dbTorrents]}]

\* An announce that gives up the upsert when the save of the stats fails.
announce_undone_on_failed_save(h, draft, remote_client_ip, peers_wanted) ==
    LET peer == change_ip(draft, assign_ip_address_to_peer(remote_client_ip, config.net.external_ip))
        upsert == upsert_peer_and_get_stats(h, peer)
    IN  /\ upsert.stats.downloaded <= MaxDownloaded
        /\ \E saved \in upsert.saves :
              LET kept == IF saved.save = "failed" THEN torrents ELSE upsert.torrents
              IN  /\ torrents' = kept
                  /\ dbTorrents' = saved.db
                  /\ \E peers \in get_peers_for(kept, h, peer, limit(peers_wanted)) :
                        last' = [op |-> "announce", info_hash |-> h, draft |-> draft, peer |-> peer,
                                 remote_client_ip |-> remote_client_ip, peers_wanted |-> peers_wanted,
                                 peers |-> peers,
                                 stats |-> unwrap_or(repo_get_swarm_metadata(kept, h), zeroed),
                                 policy |-> config.announce_policy, save |-> saved.save]
        /\ UNCHANGED <<config, now, keys, dbKeys, whitelist, dbWhitelist, calls, history>>

\* An announce that puts the torrent on the in-memory whitelist as well.
announce_whitelisting(h, draft, remote_client_ip, peers_wanted) ==
    LET peer == change_ip(draft, assign_ip_address_to_peer(remote_client_ip, config.net.external_ip))
        upsert == upsert_peer_and_get_stats(h, peer)
    IN  /\ upsert.stats.downloaded <= MaxDownloaded
        /\ torrents' = upsert.torrents
        /\ whitelist' = whitelist \cup {h}
        /\ \E saved \in upsert.saves, peers \in get_peers_for(upsert.torrents, h, peer, limit(peers_wanted)) :
              /\ dbTorrents' = saved.db
              /\ last' = [op |-> "announce", info_hash |-> h, draft |-> draft, peer |-> peer,
                          remote_client_ip |-> remote_client_ip, peers_wanted |-> peers_wanted,
                          peers |-> peers, stats |-> upsert.stats,
                          policy |-> config.announce_policy, save |-> saved.save]
        /\ history' = AfterAnnounce(history, h, peer)
        /\ UNCHANGED <<config, now, keys, dbKeys, dbWhitelist, calls>>

\* Tracker::announce
announce(h, draft, remote_client_ip, peers_wanted) ==
    LET peer == change_ip(draft, assign_ip_address_to_peer(remote_client_ip, config.net.external_ip))
        upsert == upsert_peer_and_get_stats(h, peer)
    IN  /\ upsert.stats.downloaded <= MaxDownloaded
        /\ torrents' = upsert.torrents
        /\ \E saved \in upsert.saves, peers \in get_peers_for(upsert.torrents, h, peer, limit(peers_wanted)) :
              /\ dbTorrents' = saved.db
              /\ last' = [op |-> "announce", info_hash |-> h, draft |-> draft, peer |-> peer,
                          remote_client_ip |-> remote_client_ip, peers_wanted |-> peers_wanted,
                          peers |-> peers, stats |-> upsert.stats,
                          policy |-> config.announce_policy, save |-> saved.save]
        /\ history' = AfterAnnounce(history, h, peer)
        /\ UNCHANGED <<config, now, keys, dbKeys, whitelist, dbWhitelist, calls>>

\* Tracker::scrape
Scrape ==
    \E n \in 0..MaxScrapeLen : \E info_hashes \in [1..n -> InfoHashes] :
        /\ last' = [op |-> "scrape", info_hashes |-> info_hashes, files |-> scrape(info_hashes)]
        /\ UNCHANGED <<config, now, torrents, dbTorrents, keys, dbKeys, whitelist, dbWhitelist, calls, history>>

\* CurrentClock::now_sub(d).unwrap_or_default()
now_sub_or_default(d) == IF now >= d THEN now - d ELSE 0

\* A cleanup whose cutoff is the clock itself.
cleanup_torrents_no_timeout ==
    LET evicted == remove_inactive_peers(torrents, now)
    IN  IF config.tracker_policy.remove_peerless_torrents
        THEN remove_peerless_torrents(evicted, config.tracker_policy)
        ELSE evicted

\* A cleanup that removes the peerless torrents whatever the policy says.
cleanup_torrents_always_peerless ==
    LET current_cutoff == now_sub_or_default(config.tracker_policy.max_peer_timeout)
        evicted == remove_inactive_peers(torrents, current_cutoff)
    IN  remove_peerless_torrents(evicted, config.tracker_policy)

\* A cleanup that leaves the inactive peers where they are.
cleanup_torrents_peers_kept ==
    IF config.tracker_policy.remove_peerless_torrents
    THEN remove_peerless_torrents(torrents, config.tracker_policy)
    ELSE torrents

\* Tracker::cleanup_torrents
cleanup_torrents ==
    LET current_cutoff == now_sub_or_default(config.tracker_policy.max_peer_timeout)
        evicted == remove_inactive_peers(torrents, current_cutoff)
    IN  IF config.tracker_policy.remove_peerless_torrents
        THEN remove_peerless_torrents(evicted, config.tracker_policy)
        ELSE evicted

Cleanup ==
    /\ torrents' = cleanup_torrents
    /\ last' = [op |-> "cleanup", before |-> torrents]
    /\ history' = AfterCleanup(history, now_sub_or_default(config.tracker_policy.max_peer_timeout))
    /\ UNCHANGED <<config, now, dbTorrents, keys, dbKeys, whitelist, dbWhitelist, calls>>

\* A load that starts from an empty repository.
load_torrents_from_database_cleared(load_ok) ==
    IF load_ok
    THEN [result |-> "Ok", torrents |-> import_persistent(EmptyMap, dbTorrents)]
    ELSE [result |-> "Err", torrents |-> torrents]

\* Tracker::load_torrents_from_database.  The load from the database may fail.
load_torrents_from_database(load_ok) ==
    IF load_ok
    THEN [result |-> "Ok", torrents |-> import_persistent(torrents, dbTorrents)]
    ELSE [result |-> "Err", torrents |-> torrents]

LoadTorrents ==
    \E load_ok \in BOOLEAN :
        /\ torrents' = load_torrents_from_database(load_ok).torrents
        /\ last' = [op |-> "load_torrents", result |-> load_torrents_from_database(load_ok).result,
                    before |-> torrents]
        /\ UNCHANGED <<config, now, dbTorrents, keys, dbKeys, whitelist, dbWhitelist, calls, history>>

\* The clock advances.
Tick ==
    /\ now < MaxTime
    /\ now' = now + 1
    /\ last' = [op |-> "tick"]
    /\ UNCHANGED <<config, torrents, dbTorrents, keys, dbKeys, whitelist, dbWhitelist, calls, history>>

(***************************************************************************)
(* The key store.  keys and dbKeys map a key to its valid_until: None for  *)
(* a permanent key, Some(t) for a key that expires at t.                   *)
(***************************************************************************)
Keys == {"k1", "k2"}

\* auth::verify_key_expiration
verify_key_expiration(valid_until) ==
    IF valid_until # None /\ now > valid_until[1] THEN "KeyExpired" ELSE "Ok"

\* A key verification that checks the expiration time whatever private_mode says.
verify_auth_key_always_checked(key) ==
    IF key \notin DOMAIN keys THEN "UnableToReadKey"
    ELSE verify_key_expiration(keys[key])

\* A key verification that never looks at the expiration time.
verify_auth_key_unchecked(key) ==
    IF key \notin DOMAIN keys THEN "UnableToReadKey" ELSE "Ok"

\* Tracker::verify_auth_key
verify_auth_key(key) ==
    IF key \notin DOMAIN keys THEN "UnableToReadKey"
    ELSE IF config.private_mode # None
         THEN IF config.private_mode[1].check_keys_expiration
              THEN verify_key_expiration(keys[key])
              ELSE "Ok"
         ELSE verify_key_expiration(keys[key])

\* Tracker::authenticate
authenticate(key) == IF is_private THEN verify_auth_key(key) ELSE "Ok"

Authenticate ==
    \E key \in Keys :
        /\ last' = [op |-> "authenticate", key |-> key, result |-> authenticate(key)]
        /\ UNCHANGED <<config, now, torrents, dbTorrents, keys, dbKeys, whitelist, dbWhitelist, calls, history>>

\* Database::add_key_to_keys: the key column is unique, and the driver can fail.
add_key_to_keys(key, db_ok) == db_ok /\ key \notin DOMAIN dbKeys

\* Tracker::add_auth_key: the result, and the table and the map it leaves.
add_auth_key(key, valid_until, db_ok) ==
    IF add_key_to_keys(key, db_ok)
    THEN [result |-> "Ok", dbKeys |-> Put(dbKeys, key, valid_until),
          keys |-> Put(keys, key, valid_until)]
    ELSE [result |-> "Err", dbKeys |-> dbKeys, keys |-> keys]

KeyLifetimes == {None} \cup {Some(t) : t \in Times}

AddAuthKey ==
    \E key \in Keys, valid_until \in KeyLifetimes, db_ok \in BOOLEAN :
        LET done == add_auth_key(key, valid_until, db_ok)
        IN  /\ dbKeys' = done.dbKeys
            /\ keys' = done.keys
            /\ last' = [op |-> "add_auth_key", key |-> key, result |-> done.result,
                        db |-> IF add_key_to_keys(key, db_ok) THEN "ok" ELSE "failed",
                        before |-> [keys |-> keys, dbKeys |-> dbKeys]]
            /\ UNCHANGED <<config, now, torrents, dbTorrents, whitelist, dbWhitelist, calls, history>>

\* auth::generate_key: a random key, valid for the lifetime from now on.
generate_key(key, lifetime) ==
    [key |-> key, valid_until |-> IF lifetime = None THEN None ELSE Some(now + lifetime[1])]

\* Tracker::generate_auth_key
generate_auth_key(auth_key, db_ok) ==
    IF add_key_to_keys(auth_key.key, db_ok)
    THEN [result |-> "Ok", dbKeys |-> Put(dbKeys, auth_key.key, auth_key.valid_until),
          keys |-> Put(keys, auth_key.key, auth_key.valid_until)]
    ELSE [result |-> "Err", dbKeys |-> dbKeys, keys |-> keys]

GenerateAuthKey ==
    \E key \in Keys, lifetime \in {None} \cup {Some(d) : d \in 0..(MaxTime - now)},
       db_ok \in BOOLEAN :
        LET auth_key == generate_key(key, lifetime)
            done == generate_auth_key(auth_key, db_ok)
        IN  /\ dbKeys' = done.dbKeys
            /\ keys' = done.keys
            /\ last' = [op |-> "generate_auth_key", key |-> key, result |-> done.result,
                        db |-> IF add_key_to_keys(key, db_ok) THEN "ok" ELSE "failed"]
            /\ UNCHANGED <<config, now, torrents, dbTorrents, whitelist, dbWhitelist, calls, history>>

\* CurrentClock::now_add(d): None when the sum cannot be represented.
now_add(d) == IF now + d > MaxDuration THEN None ELSE Some(now + d)

\* str::parse::<Key>: the key of a text that is one, and None for any other.
parse_key(text) == IF text \in Keys THEN Some(text) ELSE None

\* An add_peer_key that parses the key before it looks at the lifetime.
add_peer_key_parse_first(opt_key, opt_seconds_valid, generated, db_ok) ==
    LET failed(error) == [result |-> error, via |-> "none", peer_key |-> None,
                          dbKeys |-> dbKeys, keys |-> keys]
        added(via, key, valid_until, done) ==
            IF done.result = "Ok"
            THEN [result |-> "Ok", via |-> via,
                  peer_key |-> Some([key |-> key, valid_until |-> valid_until]),
                  dbKeys |-> done.dbKeys, keys |-> done.keys]
            ELSE [result |-> "DatabaseError", via |-> via, peer_key |-> None,
                  dbKeys |-> done.dbKeys, keys |-> done.keys]
    IN  IF opt_key # None
        THEN IF parse_key(opt_key[1]) = None THEN failed("InvalidKey")
             ELSE IF opt_seconds_valid # None
                  THEN IF now_add(opt_seconds_valid[1]) = None THEN failed("DurationOverflow")
                       ELSE added("add_auth_key", parse_key(opt_key[1])[1], now_add(opt_seconds_valid[1]),
                                  add_auth_key(parse_key(opt_key[1])[1], now_add(opt_seconds_valid[1]), db_ok))
                  ELSE added("add_auth_key", parse_key(opt_key[1])[1], None,
                             add_auth_key(parse_key(opt_key[1])[1], None, db_ok))
        ELSE added("generate_auth_key", generated, generate_key(generated, opt_seconds_valid).valid_until,
                   generate_auth_key(generate_key(generated, opt_seconds_valid), db_ok))

\* An add_peer_key that stores every key as a permanent one.
add_peer_key_always_permanent(opt_key, opt_seconds_valid, generated, db_ok) ==
    LET failed(error) == [result |-> error, via |-> "none", peer_key |-> None,
                          dbKeys |-> dbKeys, keys |-> keys]
        added(via, key, valid_until, done) ==
            IF done.result = "Ok"
            THEN [result |-> "Ok", via |-> via,
                  peer_key |-> Some([key |-> key, valid_until |-> valid_until]),
                  dbKeys |-> done.dbKeys, keys |-> done.keys]
            ELSE [result |-> "DatabaseError", via |-> via, peer_key |-> None,
                  dbKeys |-> done.dbKeys, keys |-> done.keys]
    IN  IF opt_key # None
        THEN IF opt_seconds_valid # None /\ now_add(opt_seconds_valid[1]) = None
             THEN failed("DurationOverflow")
             ELSE IF parse_key(opt_key[1]) = None THEN failed("InvalidKey")
             ELSE added("add_auth_key", parse_key(opt_key[1])[1], None,
                        add_auth_key(parse_key(opt_key[1])[1], None, db_ok))
        ELSE added("generate_auth_key", generated, None,
                   generate_auth_key(generate_key(generated, None), db_ok))

\* Tracker::add_peer_key.  `generated` is the key auth::generate_key draws
\* when none is uploaded.  The result names the error, or carries the
\* PeerKey; `via` is the operation the key was handed to.
add_peer_key(opt_key, opt_seconds_valid, generated, db_ok) ==
    LET failed(error) == [result |-> error, via |-> "none", peer_key |-> None,
                          dbKeys |-> dbKeys, keys |-> keys]
        added(via, key, valid_until, done) ==
            IF done.result = "Ok"
            THEN [result |-> "Ok", via |-> via,
                  peer_key |-> Some([key |-> key, valid_until |-> valid_until]),
                  dbKeys |-> done.dbKeys, keys |-> done.keys]
            ELSE [result |-> "DatabaseError", via |-> via, peer_key |-> None,
                  dbKeys |-> done.dbKeys, keys |-> done.keys]
    IN  IF opt_key # None
        THEN IF opt_seconds_valid # None
             THEN IF now_add(opt_seconds_valid[1]) = None THEN failed("DurationOverflow")
                  ELSE IF parse_key(opt_key[1]) = None THEN failed("InvalidKey")
                  ELSE added("add_auth_key", parse_key(opt_key[1])[1], now_add(opt_seconds_valid[1]),
                             add_auth_key(parse_key(opt_key[1])[1], now_add(opt_seconds_valid[1]), db_ok))
             ELSE IF parse_key(opt_key[1]) = None THEN failed("InvalidKey")
                  ELSE added("add_auth_key", parse_key(opt_key[1])[1], None,
                             add_auth_key(parse_key(opt_key[1])[1], None, db_ok))
        ELSE added("generate_auth_key", generated, generate_key(generated, opt_seconds_valid).valid_until,
                   generate_auth_key(generate_key(generated, opt_seconds_valid), db_ok))

\* The requests: an uploaded text (a key or not) or none, a lifetime or none.
KeyTexts == Keys \cup {"not-a-key"}
SecondsValid == {1, MaxDuration}
AddKeyRequests ==
    [opt_key : {None} \cup {Some(text) : text \in KeyTexts},
     opt_seconds_valid : {None} \cup {Some(seconds) : seconds \in SecondsValid}]

\* A call of add_peer_key.  A key is generated only for a lifetime that ends
\* at a time that can be represented.
AddPeerKey ==
    \E add_key_req \in AddKeyRequests, generated \in Keys, db_ok \in BOOLEAN :
        LET done == add_peer_key(add_key_req.opt_key, add_key_req.opt_seconds_valid, generated, db_ok)
        IN  /\ add_key_req.opt_key = None /\ add_key_req.opt_seconds_valid # None
                => now_add(add_key_req.opt_seconds_valid[1]) # None
            /\ add_key_req.opt_key # None => generated = "k1"
            /\ dbKeys' = done.dbKeys
            /\ keys' = done.keys
            /\ last' = [op |-> "add_peer_key", add_key_req |-> add_key_req, result |-> done.result,
                        via |-> done.via, peer_key |-> done.peer_key, at |-> now,
                        before |-> [keys |-> keys, dbKeys |-> dbKeys]]
            /\ UNCHANGED <<config, now, torrents, dbTorrents, whitelist, dbWhitelist, calls, history>>

\* A removal that deletes the key from the table and leaves it in the map.
remove_auth_key_db_only(key, db_ok) ==
    IF db_ok
    THEN [result |-> "Ok", dbKeys |-> Del(dbKeys, key), keys |-> keys]
    ELSE [result |-> "Err", dbKeys |-> dbKeys, keys |-> keys]

\* Tracker::remove_auth_key
remove_auth_key(key, db_ok) ==
    IF db_ok
    THEN [result |-> "Ok", dbKeys |-> Del(dbKeys, key), keys |-> Del(keys, key)]
    ELSE [result |-> "Err", dbKeys |-> dbKeys, keys |-> keys]

RemoveAuthKey ==
    \E key \in Keys, db_ok \in BOOLEAN :
        LET done == remove_auth_key(key, db_ok)
        IN  /\ dbKeys' = done.dbKeys
            /\ keys' = done.keys
            /\ last' = [op |-> "remove_auth_key", key |-> key, result |-> done.result,
                        db |-> IF db_ok THEN "ok" ELSE "failed",
                        undoes |-> /\ last.op = "add_auth_key"
                                   /\ last.result = "Ok"
                                   /\ last.key = key
                                   /\ key \notin DOMAIN last.before.keys]
            /\ UNCHANGED <<config, now, torrents, dbTorrents, whitelist, dbWhitelist, calls, history>>

\* Tracker::load_keys_from_database
load_keys_from_database(db_ok) ==
    IF db_ok THEN [result |-> "Ok", keys |-> dbKeys] ELSE [result |-> "Err", keys |-> keys]

LoadKeys ==
    \E db_ok \in BOOLEAN :
        LET done == load_keys_from_database(db_ok)
        IN  /\ keys' = done.keys
            /\ last' = [op |-> "load_keys", result |-> done.result,
                        db |-> IF db_ok THEN "ok" ELSE "failed"]
            /\ UNCHANGED <<config, now, torrents, dbTorrents, dbKeys, whitelist, dbWhitelist, calls, history>>

(***************************************************************************)
(* Spec: a listed tracker with h1 whitelisted and h2 not.  Two clients     *)
(* announce on h1 and one on h2, from two addresses.  Nothing is persisted *)
(* (SpecPersist persists) and the clock stands still (SpecTime moves it).  *)
(***************************************************************************)
PeerIds == {1, 2}
FirstClientIP == IPv4(126, 1)
ClientIPs == {FirstClientIP, IPv4(126, 2)}
DraftIP == IPv4(10, 9)      \* the IP a client puts in its announce
Port == 8080

\* The clients of each torrent.
Population(h) == IF h = "h1" THEN PeerIds ELSE {1}

\* The (event, left) pairs the clients announce.
EventLefts == {<<"Started", 1000>>, <<"Updated", 0>>, <<"Completed", 0>>}

Config(private, listed, external_ip, timeout, persistent, peerless, private_mode) ==
    [private |-> private, listed |-> listed,
     net |-> [external_ip |-> external_ip],
     announce_policy |-> [interval |-> 120, interval_min |-> 120],
     tracker_policy |-> [max_peer_timeout |-> timeout,
                         persistent_torrent_completed_stat |-> persistent,
                         remove_peerless_torrents |-> peerless],
     private_mode |-> private_mode]

Init ==
    /\ config = Config(FALSE, TRUE, None, 1, FALSE, TRUE, None)
    /\ now = 0
    /\ torrents = EmptyMap
    /\ dbTorrents = EmptyMap
    /\ keys = EmptyMap
    /\ dbKeys = EmptyMap
    /\ whitelist = {"h1"}
    /\ dbWhitelist = {"h1"}
    /\ last = [op |-> "init"]
    /\ calls = EmptyMap
    /\ history = NotRecorded

Announce ==
    \E h \in InfoHashes, ip \in ClientIPs, el \in EventLefts :
        \E id \in Population(h) :
            announce(h, Peer(id, SocketAddr(DraftIP, Port), now, el[2], el[1]), ip, PeersWantedAll)

Next == Announce \/ Scrape \/ Cleanup

Spec == Init /\ [][Next]_vars

(***************************************************************************)
(* SpecTime: a tracker whose clock moves.  Two clients announce on h1 with *)
(* any update time; peers become inactive as the clock advances and the    *)
(* cleanup evicts them.  The tracker is listed (h1 whitelisted) or not.    *)
(***************************************************************************)
InitTime ==
    /\ config \in {Config(FALSE, listed, None, 1, FALSE, TRUE, None) : listed \in BOOLEAN}
    /\ now = 0
    /\ torrents = EmptyMap
    /\ dbTorrents = EmptyMap
    /\ keys = EmptyMap
    /\ dbKeys = EmptyMap
    /\ whitelist = {"h1"}
    /\ dbWhitelist = {"h1"}
    /\ last = [op |-> "init"]
    /\ calls = EmptyMap
    /\ history = NotRecorded

\* The announces of the clients: the peer of the request and the IP it comes from.
TimedRequests ==
    {<<Peer(id, SocketAddr(DraftIP, Port), updated, el[2], el[1]), IPv4(126, id)>> :
        id \in PeerIds, updated \in Times, el \in EventLefts}

AnnounceTimed ==
    \E request \in TimedRequests :
        announce("h1", request[1], request[2], PeersWantedAll)

NextTime == AnnounceTimed \/ Scrape \/ Cleanup \/ Tick

SpecTime == InitTime /\ [][NextTime]_vars

(***************************************************************************)
(* SpecPersist: a public tracker that persists the downloaded counters.    *)
(* One client announces on h1; a save succeeds or fails; the database may  *)
(* hold a record of an earlier run.                                        *)
(***************************************************************************)
InitPersist ==
    /\ config = Config(FALSE, FALSE, None, 1, TRUE, TRUE, None)
    /\ now = 0
    /\ torrents = EmptyMap
    /\ dbTorrents \in {EmptyMap, Put(EmptyMap, "h1", 1)}
    /\ keys = EmptyMap
    /\ dbKeys = EmptyMap
    /\ whitelist = {}
    /\ dbWhitelist = {}
    /\ last = [op |-> "init"]
    /\ calls = EmptyMap
    /\ history = NotRecorded

AnnouncePersist ==
    \E el \in EventLefts :
        announce("h1", Peer(1, SocketAddr(DraftIP, Port), now, el[2], el[1]),
                 FirstClientIP, PeersWantedAll)

NextPersist == AnnouncePersist \/ Cleanup \/ LoadTorrents \/ Scrape \/ Tick

SpecPersist == InitPersist /\ [][NextPersist]_vars

(***************************************************************************)
(* SpecCap: a crowd of up to MaxCrowd clients, each at its own address,    *)
(* joins the swarm of h1 one after the other; the first and the newest     *)
(* client announce with each of the peers_wanted values.                   *)
(***************************************************************************)
PeersWantedInputs == {PeersWantedAll, PeersWantedOnly(1), PeersWantedOnly(MaxCrowd - 1)}

InitCap ==
    /\ config = Config(FALSE, FALSE, None, 1, FALSE, TRUE, None)
    /\ now = 0
    /\ torrents = EmptyMap
    /\ dbTorrents = EmptyMap
    /\ keys = EmptyMap
    /\ dbKeys = EmptyMap
    /\ whitelist = {}
    /\ dbWhitelist = {}
    /\ last = [op |-> "init"]
    /\ calls = EmptyMap
    /\ history = NotRecorded

AnnounceCrowd ==
    \E id \in {1, Cardinality(DOMAIN PeersOf(torrents, "h1")) + 1} \cap (1..MaxCrowd),
       peers_wanted \in PeersWantedInputs :
        announce("h1", Peer(id, SocketAddr(DraftIP, Port), now, 1000, "Started"),
                 IPv4(126, id), peers_wanted)

NextCap == AnnounceCrowd

SpecCap == InitCap /\ [][NextCap]_vars

(***************************************************************************)
(* SpecAuth: the key store of a public or private tracker, with each       *)
(* setting of private_mode, as keys are added, removed and reloaded and    *)
(* the clock advances.                                                     *)
(***************************************************************************)
PrivateModes == {None} \cup {Some([check_keys_expiration |-> b]) : b \in BOOLEAN}

InitAuth ==
    /\ config \in {Config(private, FALSE, None, 1, FALSE, TRUE, private_mode) :
                      private \in BOOLEAN, private_mode \in PrivateModes}
    /\ now = 0
    /\ torrents = EmptyMap
    /\ dbTorrents = EmptyMap
    /\ keys = EmptyMap
    /\ dbKeys \in {EmptyMap, Put(EmptyMap, "k1", Some(1))}
    /\ whitelist = {}
    /\ dbWhitelist = {}
    /\ last = [op |-> "init"]
    /\ calls = EmptyMap
    /\ history = NotRecorded

NextAuth == Authenticate \/ AddAuthKey \/ RemoveAuthKey \/ LoadKeys \/ Tick

SpecAuth == InitAuth /\ [][NextAuth]_vars

(***************************************************************************)
(* The whitelist.  A database call succeeds or fails: check_ok is the      *)
(* outcome of Database::is_info_hash_whitelisted, write_ok that of the     *)
(* insert or delete, load_ok that of Database::load_whitelist.             *)
(***************************************************************************)
\* Tracker::add_torrent_to_database_whitelist: the result and the table it leaves.
add_torrent_to_database_whitelist(h, check_ok, write_ok) ==
    IF ~check_ok THEN [result |-> "Err", db |-> dbWhitelist]
    ELSE IF h \in dbWhitelist THEN [result |-> "Ok", db |-> dbWhitelist]
    ELSE IF ~write_ok THEN [result |-> "Err", db |-> dbWhitelist]
    ELSE [result |-> "Ok", db |-> dbWhitelist \cup {h}]

\* Tracker::add_torrent_to_memory_whitelist
add_torrent_to_memory_whitelist(h) == whitelist \cup {h}

\* An add that returns as soon as it finds the info-hash in the table.
add_torrent_to_whitelist_no_reconcile(h, check_ok, write_ok) ==
    LET stored == add_torrent_to_database_whitelist(h, check_ok, write_ok)
    IN  [result |-> stored.result, db |-> stored.db,
         whitelist |-> IF stored.result = "Ok" /\ h \notin dbWhitelist
                       THEN add_torrent_to_memory_whitelist(h) ELSE whitelist]

\* An add that changes the in-memory whitelist before it writes the table.
add_torrent_to_whitelist_memory_first(h, check_ok, write_ok) ==
    LET stored == add_torrent_to_database_whitelist(h, check_ok, write_ok)
    IN  [result |-> stored.result, db |-> stored.db,
         whitelist |-> add_torrent_to_memory_whitelist(h)]

\* Tracker::add_torrent_to_whitelist
add_torrent_to_whitelist(h, check_ok, write_ok) ==
    LET stored == add_torrent_to_database_whitelist(h, check_ok, write_ok)
    IN  [result |-> stored.result, db |-> stored.db,
         whitelist |-> IF stored.result = "Ok"
                       THEN add_torrent_to_memory_whitelist(h) ELSE whitelist]

\* Tracker::remove_torrent_from_database_whitelist
remove_torrent_from_database_whitelist(h, check_ok, write_ok) ==
    IF ~check_ok THEN [result |-> "Err", db |-> dbWhitelist]
    ELSE IF h \notin dbWhitelist THEN [result |-> "Ok", db |-> dbWhitelist]
    ELSE IF ~write_ok THEN [result |-> "Err", db |-> dbWhitelist]
    ELSE [result |-> "Ok", db |-> dbWhitelist \ {h}]

\* Tracker::remove_torrent_from_memory_whitelist
remove_torrent_from_memory_whitelist(h) == whitelist \ {h}

\* Tracker::remove_torrent_from_whitelist
remove_torrent_from_whitelist(h, check_ok, write_ok) ==
    LET stored == remove_torrent_from_database_whitelist(h, check_ok, write_ok)
    IN  [result |-> stored.result, db |-> stored.db,
         whitelist |-> IF stored.result = "Ok"
                       THEN remove_torrent_from_memory_whitelist(h) ELSE whitelist]

\* A replacement that does not clear the in-memory whitelist first.
whitelist_after_load_no_clear(whitelisted_torrents_from_database) ==
    whitelist \cup whitelisted_torrents_from_database

\* The second half of load_whitelist_from_database: under the write lock,
\* clear the set and insert what was read.
whitelist_after_load(whitelisted_torrents_from_database) ==
    whitelisted_torrents_from_database

\* Tracker::load_whitelist_from_database
load_whitelist_from_database(load_ok) ==
    IF load_ok THEN [result |-> "Ok", whitelist |-> whitelist_after_load(dbWhitelist)]
    ELSE [result |-> "Err", whitelist |-> whitelist]

\* Whether a database call of a whitelist change failed: the check, or the
\* write when there was one to make.
write_failed(present, check_ok, write_ok) ==
    IF ~check_ok \/ (~present /\ ~write_ok) THEN "failed" ELSE "ok"

AddTorrentToWhitelist ==
    \E h \in InfoHashes, check_ok \in BOOLEAN, write_ok \in BOOLEAN :
        LET done == add_torrent_to_whitelist(h, check_ok, write_ok)
        IN  /\ dbWhitelist' = done.db
            /\ whitelist' = done.whitelist
            /\ last' = [op |-> "add_torrent_to_whitelist", info_hash |-> h,
                        result |-> done.result,
                        db |-> write_failed(h \in dbWhitelist, check_ok, write_ok),
                        before |-> [whitelist |-> whitelist, db |-> dbWhitelist]]
            /\ UNCHANGED <<config, now, torrents, dbTorrents, keys, dbKeys, calls, history>>

RemoveTorrentFromWhitelist ==
    \E h \in InfoHashes, check_ok \in BOOLEAN, write_ok \in BOOLEAN :
        LET done == remove_torrent_from_whitelist(h, check_ok, write_ok)
        IN  /\ dbWhitelist' = done.db
            /\ whitelist' = done.whitelist
            /\ last' = [op |-> "remove_torrent_from_whitelist", info_hash |-> h,
                        result |-> done.result,
                        db |-> write_failed(h \notin dbWhitelist, check_ok, write_ok),
                        before |-> [whitelist |-> whitelist, db |-> dbWhitelist]]
            /\ UNCHANGED <<config, now, torrents, dbTorrents, keys, dbKeys, calls, history>>

LoadWhitelist ==
    \E load_ok \in BOOLEAN :
        LET done == load_whitelist_from_database(load_ok)
        IN  /\ whitelist' = done.whitelist
            /\ last' = [op |-> "load_whitelist", result |-> done.result,
                        db |-> IF load_ok THEN "ok" ELSE "failed"]
            /\ UNCHANGED <<config, now, torrents, dbTorrents, keys, dbKeys, dbWhitelist, calls, history>>

\* The public operations on one layer alone: add_torrent_to_memory_whitelist,
\* remove_torrent_from_memory_whitelist, remove_torrent_from_database_whitelist.
ChangeOneLayer ==
    \E h \in InfoHashes :
        /\ \/ /\ whitelist' = add_torrent_to_memory_whitelist(h)
              /\ UNCHANGED dbWhitelist
           \/ /\ whitelist' = remove_torrent_from_memory_whitelist(h)
              /\ UNCHANGED dbWhitelist
           \/ /\ dbWhitelist' = remove_torrent_from_database_whitelist(h, TRUE, TRUE).db
              /\ UNCHANGED whitelist
        /\ last' = [op |-> "change_one_layer", info_hash |-> h]
        /\ UNCHANGED <<config, now, torrents, dbTorrents, keys, dbKeys, calls, history>>

Authorize ==
    \E h \in InfoHashes :
        /\ last' = [op |-> "authorize", info_hash |-> h, result |-> authorize(h)]
        /\ UNCHANGED <<config, now, torrents, dbTorrents, keys, dbKeys, whitelist, dbWhitelist, calls, history>>

(***************************************************************************)
(* SpecStores: the key store and the whitelist of a private tracker, listed*)
(* or not, under calls made one after the other, each database call        *)
(* succeeding or failing.                                                  *)
(***************************************************************************)
InitStores ==
    /\ config \in {Config(TRUE, listed, None, 1, FALSE, TRUE, None) : listed \in BOOLEAN}
    /\ now = 0
    /\ torrents = EmptyMap
    /\ dbTorrents = EmptyMap
    /\ keys = EmptyMap
    /\ dbKeys = EmptyMap
    /\ whitelist = {}
    /\ dbWhitelist = {}
    /\ last = [op |-> "init"]
    /\ calls = EmptyMap
    /\ history = NotRecorded

NextStores ==
    \/ AddAuthKey \/ GenerateAuthKey \/ RemoveAuthKey \/ LoadKeys
    \/ AddTorrentToWhitelist \/ RemoveTorrentFromWhitelist \/ LoadWhitelist
    \/ ChangeOneLayer \/ Authorize

SpecStores == InitStores /\ [][NextStores]_vars

(***************************************************************************)
(* SpecKeysConc: the key operations of concurrent callers.  A key          *)
(* operation is two steps, the database statement and then the change of   *)
(* the in-memory map under its write lock; the steps of different callers  *)
(* interleave.  The keys added are permanent ones.                         *)
(***************************************************************************)
Threads == {1, 2}

\* Tracker::add_auth_key / generate_auth_key, up to the database statement.
AddAuthKeyBegin(t) ==
    \E key \in Keys, db_ok \in BOOLEAN :
        /\ IF add_key_to_keys(key, db_ok)
           THEN /\ dbKeys' = Put(dbKeys, key, None)
                /\ calls' = Put(calls, t, [op |-> "add_auth_key", key |-> key, valid_until |-> None])
                /\ last' = [op |-> "begin", call |-> "add_auth_key"]
           ELSE /\ UNCHANGED <<dbKeys, calls, history>>
                /\ last' = [op |-> "add_auth_key", key |-> key, result |-> "Err"]
        /\ UNCHANGED <<config, now, torrents, dbTorrents, keys, whitelist, dbWhitelist, history>>

\* Tracker::remove_auth_key, up to the database statement.
RemoveAuthKeyBegin(t) ==
    \E key \in Keys, db_ok \in BOOLEAN :
        /\ IF db_ok
           THEN /\ dbKeys' = Del(dbKeys, key)
                /\ calls' = Put(calls, t, [op |-> "remove_auth_key", key |-> key])
                /\ last' = [op |-> "begin", call |-> "remove_auth_key"]
           ELSE /\ UNCHANGED <<dbKeys, calls, history>>
                /\ last' = [op |-> "remove_auth_key", key |-> key, result |-> "Err"]
        /\ UNCHANGED <<config, now, torrents, dbTorrents, keys, whitelist, dbWhitelist, history>>

\* Tracker::load_keys_from_database, up to the database statement.
LoadKeysBegin(t) ==
    \E db_ok \in BOOLEAN :
        /\ IF db_ok
           THEN /\ calls' = Put(calls, t, [op |-> "load_keys", keys_from_database |-> dbKeys])
                /\ last' = [op |-> "begin", call |-> "load_keys"]
           ELSE /\ UNCHANGED calls
                /\ last' = [op |-> "load_keys", result |-> "Err"]
        /\ UNCHANGED <<config, now, torrents, dbTorrents, keys, dbKeys, whitelist, dbWhitelist, history>>

KeyCallBegin ==
    \E t \in Threads \ DOMAIN calls :
        AddAuthKeyBegin(t) \/ RemoveAuthKeyBegin(t) \/ LoadKeysBegin(t)

\* The second step of a key operation: self.keys.write().await and the change
\* of the map, then the return of Ok.
KeyCallEnd ==
    \E t \in DOMAIN calls :
        LET call == calls[t]
        IN  /\ call.op \in {"add_auth_key", "remove_auth_key", "load_keys"}
            /\ keys' = CASE call.op = "add_auth_key" -> Put(keys, call.key, call.valid_until)
                         [] call.op = "remove_auth_key" -> Del(keys, call.key)
                         [] call.op = "load_keys" -> call.keys_from_database
            /\ last' = IF call.op = "load_keys"
                       THEN [op |-> "load_keys", result |-> "Ok"]
                       ELSE [op |-> call.op, key |-> call.key, result |-> "Ok"]
            /\ calls' = Del(calls, t)
            /\ UNCHANGED <<config, now, torrents, dbTorrents, dbKeys, whitelist, dbWhitelist, history>>

InitKeysConc ==
    /\ config = Config(TRUE, FALSE, None, 1, FALSE, TRUE, None)
    /\ now = 0
    /\ torrents = EmptyMap
    /\ dbTorrents = EmptyMap
    /\ keys = EmptyMap
    /\ dbKeys = EmptyMap
    /\ whitelist = {}
    /\ dbWhitelist = {}
    /\ last = [op |-> "init"]
    /\ calls = EmptyMap
    /\ history = NotRecorded

NextKeysConc == KeyCallBegin \/ KeyCallEnd \/ Authenticate

SpecKeysConc == InitKeysConc /\ [][NextKeysConc]_vars

(***************************************************************************)
(* SpecWhitelistConc: whitelist operations called from two threads.  An    *)
(* add or a remove is three steps: the database check, the database write  *)
(* when the check asks for one, and the change of the in-memory set under  *)
(* its write lock.  A load is two: the read of the table, and the          *)
(* replacement of the set.  A pending load records whether it ran alone,   *)
(* that is, whether no other call was pending or started while it ran.     *)
(***************************************************************************)
\* The pending calls once another call has started beside them.
Disturbed(pending) ==
    [u \in DOMAIN pending |-> [pending[u] EXCEPT !.alone = FALSE]]

\* First step of add_torrent_to_whitelist and remove_torrent_from_whitelist:
\* Database::is_info_hash_whitelisted decides whether a write follows.
WhitelistChangeBegin(t) ==
    \E h \in InfoHashes, op \in {"add_torrent_to_whitelist", "remove_torrent_from_whitelist"} :
        /\ calls' = Put(Disturbed(calls), t,
                        [op |-> op, info_hash |-> h, alone |-> calls = EmptyMap,
                         pc |-> IF (op = "add_torrent_to_whitelist") = (h \in dbWhitelist)
                                THEN "memory" ELSE "write"])
        /\ last' = [op |-> "begin", call |-> op]
        /\ UNCHANGED <<config, now, torrents, dbTorrents, keys, dbKeys, whitelist, dbWhitelist, history>>

\* First step of load_whitelist_from_database: Database::load_whitelist.
LoadWhitelistBegin(t) ==
    \E load_ok \in BOOLEAN :
        /\ IF load_ok
           THEN /\ calls' = Put(Disturbed(calls), t,
                                [op |-> "load_whitelist", loaded |-> dbWhitelist,
                                 alone |-> calls = EmptyMap, pc |-> "memory"])
                /\ last' = [op |-> "begin", call |-> "load_whitelist"]
           ELSE /\ calls' = Disturbed(calls)
                /\ last' = [op |-> "load_whitelist", result |-> "Err"]
        /\ UNCHANGED <<config, now, torrents, dbTorrents, keys, dbKeys, whitelist, dbWhitelist, history>>

WhitelistCallBegin ==
    \E t \in Threads \ DOMAIN calls : WhitelistChangeBegin(t) \/ LoadWhitelistBegin(t)

\* The database write of a pending add or remove.  Whether an insert of a
\* row that another caller has inserted meanwhile is an error is the
\* database's choice: both outcomes are allowed.
WhitelistCallWrite ==
    \E t \in DOMAIN calls :
        LET call == calls[t]
            adds == call.op = "add_torrent_to_whitelist"
        IN  /\ call.pc = "write"
            /\ \/ /\ dbWhitelist' = IF adds THEN dbWhitelist \cup {call.info_hash}
                                    ELSE dbWhitelist \ {call.info_hash}
                  /\ calls' = [calls EXCEPT ![t].pc = "memory"]
                  /\ last' = [op |-> "write", call |-> call.op]
               \/ /\ adds = (call.info_hash \in dbWhitelist)
                  /\ calls' = Del(calls, t)
                  /\ last' = [op |-> call.op, result |-> "Err"]
                  /\ UNCHANGED dbWhitelist
            /\ UNCHANGED <<config, now, torrents, dbTorrents, keys, dbKeys, whitelist, history>>

\* The last step of a pending call: the change of the in-memory set, and
\* the return.
WhitelistCallEnd ==
    \E t \in DOMAIN calls :
        LET call == calls[t]
        IN  /\ call.pc = "memory"
            /\ whitelist' =
                 CASE call.op = "add_torrent_to_whitelist"
                        -> add_torrent_to_memory_whitelist(call.info_hash)
                   [] call.op = "remove_torrent_from_whitelist"
                        -> remove_torrent_from_memory_whitelist(call.info_hash)
                   [] call.op = "load_whitelist"
                        -> whitelist_after_load(call.loaded)
            /\ calls' = Del(calls, t)
            /\ last' = [op |-> call.op, result |-> "Ok", alone |-> call.alone,
                        before |-> whitelist]
            /\ UNCHANGED <<config, now, torrents, dbTorrents, keys, dbKeys, dbWhitelist, history>>

\* remove_torrent_from_memory_whitelist called on its own: the info-hash is
\* wiped from memory and stays in the table.
WipeFromMemory ==
    \E h \in InfoHashes :
        /\ whitelist' = remove_torrent_from_memory_whitelist(h)
        /\ calls' = Disturbed(calls)
        /\ last' = [op |-> "remove_torrent_from_memory_whitelist", info_hash |-> h]
        /\ UNCHANGED <<config, now, torrents, dbTorrents, keys, dbKeys, dbWhitelist, history>>

InitWhitelistConc ==
    /\ config = Config(FALSE, TRUE, None, 1, FALSE, TRUE, None)
    /\ now = 0
    /\ torrents = EmptyMap
    /\ dbTorrents = EmptyMap
    /\ keys = EmptyMap
    /\ dbKeys = EmptyMap
    /\ whitelist = {}
    /\ dbWhitelist = {}
    /\ last = [op |-> "init"]
    /\ calls = EmptyMap
    /\ history = NotRecorded

NextWhitelistConc ==
    WhitelistCallBegin \/ WhitelistCallWrite \/ WhitelistCallEnd \/ WipeFromMemory

SpecWhitelistConc == InitWhitelistConc /\ [][NextWhitelistConc]_vars

(***************************************************************************)
(* SpecModes: announces, scrapes and authorizations on a tracker in any of *)
(* the four modes (public, listed, private, private and listed), whatever  *)
(* its whitelist and key store hold.                                       *)
(***************************************************************************)
\* The announces of one client, at the time the tracker starts.
ModeRequests ==
    {request \in TimedRequests : request[1].peer_id = 1 /\ request[1].updated = 0}

AnnounceModes ==
    \E h \in InfoHashes, request \in ModeRequests :
        announce(h, request[1], request[2], PeersWantedAll)

InitModes ==
    /\ config \in {Config(private, listed, None, 1, FALSE, TRUE, None) :
                     private \in BOOLEAN, listed \in BOOLEAN}
    /\ now = 0
    /\ torrents = EmptyMap
    /\ dbTorrents = EmptyMap
    /\ keys \in {EmptyMap, [k \in {"k1"} |-> None]}
    /\ dbKeys = keys
    /\ whitelist \in SUBSET InfoHashes
    /\ dbWhitelist = whitelist
    /\ last = [op |-> "init"]
    /\ calls = EmptyMap
    /\ history = NotRecorded

NextModes == AnnounceModes \/ Scrape \/ Authorize

SpecModes == InitModes /\ [][NextModes]_vars

(***************************************************************************)
(* SpecAssign: assign_ip_address_to_peer applied to client addresses on    *)
(* both sides of the loopback ranges, IPv4 and IPv6, for a tracker with no *)
(* external IP or with one of either version.                              *)
(***************************************************************************)
\* 126.0.0.x, 127.0.0.x, 128.0.0.x and ::x, 1::x.
AssignClientIPs ==
    {IPv4(a, d) : a \in {126, 127, 128}, d \in {0, 1, 2}}
      \cup {IPv6(a, d) : a \in {0, 1}, d \in {0, 1, 2}}

AssignExternalIPs == {None} \cup {Some(ip) : ip \in AssignClientIPs}

AssignIp ==
    \E remote_client_ip \in AssignClientIPs :
        /\ last' = [op |-> "assign_ip_address_to_peer",
                    remote_client_ip |-> remote_client_ip,
                    tracker_external_ip |-> config.net.external_ip,
                    result |-> assign_ip_address_to_peer(remote_client_ip,
                                                         config.net.external_ip)]
        /\ UNCHANGED <<config, now, torrents, dbTorrents, keys, dbKeys, whitelist, dbWhitelist, calls, history>>

InitAssign ==
    /\ config \in {Config(FALSE, FALSE, external_ip, 1, FALSE, TRUE, None) :
                     external_ip \in AssignExternalIPs}
    /\ now = 0
    /\ torrents = EmptyMap
    /\ dbTorrents = EmptyMap
    /\ keys = EmptyMap
    /\ dbKeys = EmptyMap
    /\ whitelist = {}
    /\ dbWhitelist = {}
    /\ last = [op |-> "init"]
    /\ calls = EmptyMap
    /\ history = NotRecorded

NextAssign == AssignIp

SpecAssign == InitAssign /\ [][NextAssign]_vars

(***************************************************************************)
(* SpecIp: announces that reach the tracker from loopback and from other   *)
(* addresses, IPv4 and IPv6, on a tracker with no external IP or with one  *)
(* of either version.  The client puts DraftIP in its peer.                *)
(***************************************************************************)
IpExternalIPs == {None, Some(IPv4(126, 2)), Some(IPv6(1, 2))}

\* The announces: the peer of the request and the IP it comes from.
IpRequests ==
    {<<Peer(id, SocketAddr(DraftIP, Port), 0, el[2], el[1]), remote_client_ip>> :
        id \in PeerIds, el \in EventLefts,
        remote_client_ip \in {ip \in AssignClientIPs : ip.d = 1}}

AnnounceIp ==
    \E request \in IpRequests :
        announce("h1", request[1], request[2], PeersWantedAll)

InitIp ==
    /\ config \in {Config(FALSE, FALSE, external_ip, 1, FALSE, TRUE, None) :
                     external_ip \in IpExternalIPs}
    /\ now = 0
    /\ torrents = EmptyMap
    /\ dbTorrents = EmptyMap
    /\ keys = EmptyMap
    /\ dbKeys = EmptyMap
    /\ whitelist = {}
    /\ dbWhitelist = {}
    /\ last = [op |-> "init"]
    /\ calls = EmptyMap
    /\ history = NotRecorded

NextIp == AnnounceIp \/ Cleanup

SpecIp == InitIp /\ [][NextIp]_vars

(***************************************************************************)
(* SpecSwarms: the life of the swarm entries.  A client announces on both  *)
(* torrents with any update time while the clock moves; cleanups evict     *)
(* peers and, when remove_peerless_torrents is set, drop swarms; loads     *)
(* import the persisted counters.  The tracker persists the counters or    *)
(* not, and the database may hold a record of an earlier run.              *)
(***************************************************************************)
\* The announces: one client, on either torrent, starting its download.
SwarmRequests ==
    {<<h, request>> \in InfoHashes \X TimedRequests :
        /\ request[1].peer_id = 1
        /\ request[1].event = "Started"}

AnnounceSwarms ==
    \E call \in SwarmRequests :
        announce(call[1], call[2][1], call[2][2], PeersWantedAll)

InitSwarms ==
    /\ config \in {Config(FALSE, FALSE, None, 1, persistent, peerless, None) :
                     persistent \in BOOLEAN, peerless \in BOOLEAN}
    /\ now = 0
    /\ torrents = EmptyMap
    /\ dbTorrents \in {EmptyMap, Put(EmptyMap, "h2", 1)}
    /\ keys = EmptyMap
    /\ dbKeys = EmptyMap
    /\ whitelist = {}
    /\ dbWhitelist = {}
    /\ last = [op |-> "init"]
    /\ calls = EmptyMap
    /\ history = NotRecorded

NextSwarms == AnnounceSwarms \/ Cleanup \/ LoadTorrents \/ Tick

SpecSwarms == InitSwarms /\ [][NextSwarms]_vars

(***************************************************************************)
(* SpecAnnounceConc: two server tasks share the tracker (Arc<Tracker>) and *)
(* each handles one announce.  upsert_peer_and_get_stats is three calls on *)
(* the repository, each atomic on its own: the metadata before, the        *)
(* upsert, the metadata after; get_peers_for is a fourth.  A call records  *)
(* the metadata right before and right after its own upsert.               *)
(***************************************************************************)
\* Repository::get_swarm_metadata(h), or zeroed.
swarm_metadata_or_zeroed(ts, h) == unwrap_or(repo_get_swarm_metadata(ts, h), zeroed)

\* The announces of the two tasks, all at time 0.
ConcRequests == {request \in TimedRequests : request[1].updated = 0}

\* The swarm of h1 after the first client has started its download.
StartedSwarm ==
    repo_upsert_peer(EmptyMap, "h1",
        change_ip(Peer(1, SocketAddr(DraftIP, Port), 0, 1000, "Started"), FirstClientIP))

\* announce, up to the first repository call of upsert_peer_and_get_stats.
AnnounceBegin(t) ==
    \E request \in ConcRequests :
        LET peer == change_ip(request[1],
                              assign_ip_address_to_peer(request[2], config.net.external_ip))
        IN  /\ calls' = Put(calls, t,
                            [op |-> "announce", info_hash |-> "h1", peer |-> peer, pc |-> "upsert",
                             start |-> IF calls = EmptyMap THEN torrents
                                       ELSE calls[CHOOSE u \in DOMAIN calls : TRUE].start,
                             swarm_metadata_before |-> swarm_metadata_or_zeroed(torrents, "h1"),
                             own_before |-> zeroed, own_after |-> zeroed,
                             swarm_metadata_after |-> zeroed])
            /\ last' = [op |-> "begin", thread |-> t, now |-> now]
            /\ UNCHANGED <<config, now, torrents, dbTorrents, keys, dbKeys, whitelist, dbWhitelist, history>>

\* self.torrents.upsert_peer(info_hash, peer)
AnnounceUpsert(t) ==
    LET call == calls[t]
        upserted == repo_upsert_peer(torrents, call.info_hash, call.peer)
    IN  /\ call.pc = "upsert"
        /\ torrents' = upserted
        /\ calls' = [calls EXCEPT ![t].pc = "after",
                                  ![t].own_before = swarm_metadata_or_zeroed(torrents, call.info_hash),
                                  ![t].own_after = swarm_metadata_or_zeroed(upserted, call.info_hash)]
        /\ last' = [op |-> "upsert", thread |-> t]
        /\ UNCHANGED <<config, now, dbTorrents, keys, dbKeys, whitelist, dbWhitelist, history>>

\* The second get_swarm_metadata, and persist_stats when the pair differs.
AnnounceMeasure(t) ==
    LET call == calls[t]
        swarm_metadata_after == swarm_metadata_or_zeroed(torrents, call.info_hash)
    IN  /\ call.pc = "after"
        /\ calls' = [calls EXCEPT ![t].pc = "peers",
                                  ![t].swarm_metadata_after = swarm_metadata_after]
        /\ \E saved \in (IF call.swarm_metadata_before # swarm_metadata_after
                         THEN persist_stats(call.info_hash, swarm_metadata_after)
                         ELSE {[save |-> "none", db |-> dbTorrents]}) :
              dbTorrents' = saved.db
        /\ last' = [op |-> "measure", thread |-> t]
        /\ UNCHANGED <<config, now, torrents, keys, dbKeys, whitelist, dbWhitelist, history>>

\* get_peers_for, and the return of the AnnounceData.
AnnounceReturn(t) ==
    LET call == calls[t]
    IN  /\ call.pc = "peers"
        /\ calls' = [calls EXCEPT ![t].pc = "returned"]
        /\ \E peers \in get_peers_for(torrents, call.info_hash, call.peer, limit(PeersWantedAll)) :
              last' = [op |-> "announce", thread |-> t, info_hash |-> call.info_hash,
                       peer |-> call.peer, peers |-> peers,
                       stats |-> call.swarm_metadata_after,
                       policy |-> config.announce_policy,
                       swarm_metadata_before |-> call.swarm_metadata_before,
                       own_before |-> call.own_before, own_after |-> call.own_after]
        /\ UNCHANGED <<config, now, torrents, dbTorrents, keys, dbKeys, whitelist, dbWhitelist, history>>

AnnounceCallBegin == \E t \in Threads \ DOMAIN calls : AnnounceBegin(t)

AnnounceCallStep ==
    \E t \in DOMAIN calls : AnnounceUpsert(t) \/ AnnounceMeasure(t) \/ AnnounceReturn(t)

InitAnnounceConc ==
    /\ config = Config(FALSE, FALSE, None, 1, FALSE, TRUE, None)
    /\ now = 0
    /\ torrents \in {EmptyMap, StartedSwarm}
    /\ dbTorrents = EmptyMap
    /\ keys = EmptyMap
    /\ dbKeys = EmptyMap
    /\ whitelist = {}
    /\ dbWhitelist = {}
    /\ last = [op |-> "init"]
    /\ calls = EmptyMap
    /\ history = NotRecorded

NextAnnounceConc == AnnounceCallBegin \/ AnnounceCallStep

SpecAnnounceConc == InitAnnounceConc /\ [][NextAnnounceConc]_vars

(***************************************************************************)
(* SpecScrapeConc: announces, the cleanup job and a scrape share the       *)
(* tracker.  A scrape of one info-hash is two steps: self.torrents.get,    *)
(* which hands out the entry, and the entry's get_swarm_metadata, atomic   *)
(* on the entry.  Of an announce the scrape can only see the upsert, its   *)
(* one call that changes the repository; a cleanup is two such calls.  An  *)
(* entry that the cleanup removes while a scrape holds it stays as it is   *)
(* at that instant.  The clock stands at 1 and max_peer_timeout is 0: a    *)
(* peer with updated = 0 is inactive and below the cutoff.                 *)
(***************************************************************************)
MaxOverlap == 3     \* changes of the repository while one scrape is pending

\* A read that takes the peer counts from the entry as it was handed out.
handle_get_swarm_metadata_torn(found, entry_now) ==
    IF found = None THEN zeroed
    ELSE SwarmMetadata(entry_get_swarm_metadata(found[1]).complete,
                       entry_get_swarm_metadata(entry_now).downloaded,
                       entry_get_swarm_metadata(found[1]).incomplete)

\* Tracker::get_swarm_metadata: `found` is the entry self.torrents.get
\* handed out, `entry_now` that entry when get_swarm_metadata reads it.
handle_get_swarm_metadata(found, entry_now) ==
    IF found = None THEN zeroed ELSE entry_get_swarm_metadata(entry_now)

\* The pending scrape once the repository has become ts: it records the
\* metadata its swarm has had since the scrape started.
Observed(pending, ts) ==
    [u \in DOMAIN pending |->
        IF pending[u].op = "scrape"
        THEN [pending[u] EXCEPT !.changes = @ + 1,
                                !.seen = @ \cup {swarm_metadata_or_zeroed(ts, pending[u].info_hash)}]
        ELSE pending[u]]

\* The repository may change while no scrape has seen MaxOverlap changes.
WithinOverlap ==
    \A u \in DOMAIN calls : calls[u].op = "scrape" => calls[u].changes < MaxOverlap

ScrapeConcRequests ==
    {request \in TimedRequests : request[1].peer_id = 1 /\ request[1].updated \in {0, 1}}

\* The upsert of an announce on h1.
UpsertPeer ==
    \E request \in ScrapeConcRequests :
        LET peer == change_ip(request[1],
                              assign_ip_address_to_peer(request[2], config.net.external_ip))
            upserted == repo_upsert_peer(torrents, "h1", peer)
        IN  /\ WithinOverlap
            /\ upserted["h1"].downloaded <= MaxDownloaded
            /\ torrents' = upserted
            /\ calls' = Observed(calls, upserted)
            /\ last' = [op |-> "upsert", now |-> now]
            /\ UNCHANGED <<config, now, dbTorrents, keys, dbKeys, whitelist, dbWhitelist, history>>

\* scrape, for one info-hash: self.torrents.get(info_hash).
ScrapeGet ==
    \E t \in {2} \ DOMAIN calls :
        /\ calls' = Put(calls, t,
                        [op |-> "scrape", info_hash |-> "h1", changes |-> 0,
                         found |-> IF "h1" \in DOMAIN torrents THEN Some(torrents["h1"]) ELSE None,
                         detached |-> None,
                         seen |-> {swarm_metadata_or_zeroed(torrents, "h1")}])
        /\ last' = [op |-> "begin", now |-> now]
        /\ UNCHANGED <<config, now, torrents, dbTorrents, keys, dbKeys, whitelist, dbWhitelist, history>>

\* torrent_entry.get_swarm_metadata(), and the return of the scrape.
ScrapeRead ==
    \E t \in DOMAIN calls :
        LET call == calls[t]
            entry_now == IF call.detached # None THEN call.detached[1]
                         ELSE IF call.found # None THEN torrents[call.info_hash]
                         ELSE NewEntry(0)
        IN  /\ call.op = "scrape"
            /\ calls' = Del(calls, t)
            /\ last' = [op |-> "scrape", info_hash |-> call.info_hash,
                        files |-> handle_get_swarm_metadata(call.found, entry_now),
                        seen |-> call.seen, detached |-> call.detached # None]
            /\ UNCHANGED <<config, now, torrents, dbTorrents, keys, dbKeys, whitelist, dbWhitelist, history>>

\* cleanup_torrents, first call: remove_inactive_peers(current_cutoff).
CleanupEvict ==
    LET current_cutoff == now_sub_or_default(config.tracker_policy.max_peer_timeout)
        evicted == remove_inactive_peers(torrents, current_cutoff)
    IN  /\ WithinOverlap
        /\ 0 \notin DOMAIN calls
        /\ torrents' = evicted
        /\ calls' = Observed(IF config.tracker_policy.remove_peerless_torrents
                             THEN Put(calls, 0, [op |-> "cleanup", pc |-> "peerless"])
                             ELSE calls,
                             evicted)
        /\ last' = [op |-> "evict", now |-> now]
        /\ UNCHANGED <<config, now, dbTorrents, keys, dbKeys, whitelist, dbWhitelist, history>>

\* cleanup_torrents, second call: remove_peerless_torrents(policy).  A
\* scrape that holds a removed entry keeps it as it is.
CleanupPeerless ==
    LET kept == remove_peerless_torrents(torrents, config.tracker_policy)
        held == [u \in DOMAIN calls \ {0} |->
                    IF /\ calls[u].op = "scrape"
                       /\ calls[u].found # None
                       /\ calls[u].detached = None
                       /\ calls[u].info_hash \in DOMAIN torrents \ DOMAIN kept
                    THEN [calls[u] EXCEPT !.detached = Some(torrents[calls[u].info_hash])]
                    ELSE calls[u]]
    IN  /\ WithinOverlap
        /\ 0 \in DOMAIN calls
        /\ torrents' = kept
        /\ calls' = Observed(held, kept)
        /\ last' = [op |-> "peerless", now |-> now]
        /\ UNCHANGED <<config, now, dbTorrents, keys, dbKeys, whitelist, dbWhitelist, history>>

InitScrapeConc ==
    /\ config = Config(FALSE, FALSE, None, 0, FALSE, TRUE, None)
    /\ now = 1
    /\ torrents = EmptyMap
    /\ dbTorrents = EmptyMap
    /\ keys = EmptyMap
    /\ dbKeys = EmptyMap
    /\ whitelist = {}
    /\ dbWhitelist = {}
    /\ last = [op |-> "init"]
    /\ calls = EmptyMap
    /\ history = NotRecorded

NextScrapeConc ==
    UpsertPeer \/ ScrapeGet \/ ScrapeRead \/ CleanupEvict \/ CleanupPeerless

SpecScrapeConc == InitScrapeConc /\ [][NextScrapeConc]_vars

(***************************************************************************)
(* SpecCount: announces and cleanups on h1, with the record of them kept.  *)
(* Two clients announce from two addresses, each from either, with any     *)
(* update time; the clock advances; the cleanup removes the peerless       *)
(* torrents or keeps them.                                                 *)
(***************************************************************************)
CountRequests ==
    {<<Peer(id, SocketAddr(DraftIP, Port), updated, 1000, "Started"), ip>> :
        id \in PeerIds, updated \in Times, ip \in ClientIPs}

AnnounceCount ==
    \E request \in CountRequests :
        announce("h1", request[1], request[2], PeersWantedAll)

InitCount ==
    /\ config \in {Config(FALSE, FALSE, None, 1, FALSE, peerless, None) : peerless \in BOOLEAN}
    /\ now = 0
    /\ torrents = EmptyMap
    /\ dbTorrents = EmptyMap
    /\ keys = EmptyMap
    /\ dbKeys = EmptyMap
    /\ whitelist = {}
    /\ dbWhitelist = {}
    /\ last = [op |-> "init"]
    /\ calls = EmptyMap
    /\ history = NothingYet

NextCount == AnnounceCount \/ Cleanup \/ Tick

SpecCount == InitCount /\ [][NextCount]_vars

(***************************************************************************)
(* SpecPeers: seeders join the swarm of h1 one after the other, each at    *)
(* its own address, until there is one more of them than                   *)
(* TORRENT_PEERS_LIMIT; the peers of a torrent are asked for with          *)
(* get_torrent_peers at every size of the swarm, and for h2, which has no  *)
(* swarm.                                                                  *)
(***************************************************************************)
PeersCrowd == TORRENT_PEERS_LIMIT + 1

AnnouncePeers ==
    \E id \in {Cardinality(DOMAIN PeersOf(torrents, "h1")) + 1} \cap (1..PeersCrowd) :
        announce("h1", Peer(id, SocketAddr(DraftIP, Port), now, 0, "Completed"),
                 IPv4(126, id), PeersWantedAll)

InitPeers == InitCap

NextPeers == AnnouncePeers \/ GetTorrentPeers

SpecPeers == InitPeers /\ [][NextPeers]_vars

(***************************************************************************)
(* SpecMetrics: two swarms on a public tracker whose clock moves.  Two     *)
(* clients announce on h1 and one on h2, as leechers or as seeders, at the *)
(* time of the clock; the cleanup evicts the inactive peers and keeps the  *)
(* peerless swarms or removes them; the metrics are asked for at any time. *)
(***************************************************************************)
MetricsRequests ==
    {<<h, request>> \in InfoHashes \X TimedRequests :
        /\ request[1].peer_id \in Population(h)
        /\ request[1].event \in {"Started", "Completed"}}

AnnounceMetrics ==
    \E hr \in MetricsRequests :
        /\ hr[2][1].updated = now
        /\ announce(hr[1], hr[2][1], hr[2][2], PeersWantedAll)

InitMetrics ==
    /\ config \in {Config(FALSE, FALSE, None, 1, FALSE, peerless, None) : peerless \in BOOLEAN}
    /\ now = 0
    /\ torrents = EmptyMap
    /\ dbTorrents = EmptyMap
    /\ keys = EmptyMap
    /\ dbKeys = EmptyMap
    /\ whitelist = {}
    /\ dbWhitelist = {}
    /\ last = [op |-> "init"]
    /\ calls = EmptyMap
    /\ history = NotRecorded

NextMetrics == AnnounceMetrics \/ GetTorrentsMetrics \/ Cleanup \/ Tick

SpecMetrics == InitMetrics /\ [][NextMetrics]_vars

(***************************************************************************)
(* SpecPeerKeys: a private tracker, with any private_mode, whose key store *)
(* starts empty.  Keys are added with add_peer_key (uploaded or generated, *)
(* expiring or permanent, the database failing or not) and presented to    *)
(* authenticate while the clock advances.                                  *)
(***************************************************************************)
InitPeerKeys ==
    /\ config \in {Config(TRUE, FALSE, None, 1, FALSE, TRUE, private_mode) :
                      private_mode \in PrivateModes}
    /\ now = 0
    /\ torrents = EmptyMap
    /\ dbTorrents = EmptyMap
    /\ keys = EmptyMap
    /\ dbKeys = EmptyMap
    /\ whitelist = {}
    /\ dbWhitelist = {}
    /\ last = [op |-> "init"]
    /\ calls = EmptyMap
    /\ history = NotRecorded

NextPeerKeys == AddPeerKey \/ Authenticate \/ Tick

SpecPeerKeys == InitPeerKeys /\ [][NextPeerKeys]_vars

(***************************************************************************)
(* SpecSeederLeecher: on a fresh public tracker a seeder announces on an   *)
(* info-hash; next a leecher with the seeder's peer_id and port announces  *)
(* on it from another client IP; next the tracker is scraped.  The clock   *)
(* may advance before each announce.                                       *)
(***************************************************************************)
\* The announces of a seeder: complete_peer() of the tests, from any client.
SeederRequests ==
    {<<h, request>> \in InfoHashes \X TimedRequests :
        request[1].left = 0 /\ request[1].event = "Completed"}

\* The announces of a leecher: incomplete_peer() of the tests, from any client.
LeecherRequests ==
    {<<h, request>> \in InfoHashes \X TimedRequests :
        request[1].left > 0 /\ request[1].event = "Started"}

AnnounceSeeder ==
    \E hr \in SeederRequests, ip \in ClientIPs :
        /\ torrents = EmptyMap
        /\ hr[2][1].updated = now
        /\ announce(hr[1], hr[2][1], ip, PeersWantedAll)

AnnounceLeecher ==
    \E hr \in LeecherRequests, ip \in ClientIPs :
        /\ last.op = "announce" /\ last.draft.event = "Completed"
        /\ hr[1] = last.info_hash
        /\ hr[2][1].peer_id = last.draft.peer_id
        /\ hr[2][1].peer_addr.port = last.draft.peer_addr.port
        /\ ip # last.remote_client_ip
        /\ hr[2][1].updated = now
        /\ announce(hr[1], hr[2][1], ip, PeersWantedAll)

ScrapeAfterLeecher ==
    /\ last.op = "announce" /\ last.draft.event = "Started"
    /\ Scrape

TickBeforeLeecher ==
    /\ last.op \in {"init", "tick"} \/ (last.op = "announce" /\ last.draft.event = "Completed")
    /\ now < MaxTime
    /\ now' = now + 1
    /\ last' = IF last.op = "announce" THEN last ELSE [op |-> "tick"]
    /\ UNCHANGED <<config, torrents, dbTorrents, keys, dbKeys, whitelist, dbWhitelist, calls, history>>

InitSeederLeecher == InitCap

NextSeederLeecher == AnnounceSeeder \/ AnnounceLeecher \/ ScrapeAfterLeecher \/ TickBeforeLeecher

SpecSeederLeecher == InitSeederLeecher /\ [][NextSeederLeecher]_vars

(***************************************************************************)
(* SpecWanted: the crowd of SpecCap, in rounds.  A new client joins the    *)
(* swarm of h1 asking for as many peers as the crowd can have, and after   *)
(* it the first or the newest client announces again with each of the      *)
(* peers_wanted values.                                                    *)
(***************************************************************************)
JoinCrowd ==
    \E id \in {Cardinality(DOMAIN PeersOf(torrents, "h1")) + 1} \cap (1..MaxCrowd) :
        announce("h1", Peer(id, SocketAddr(DraftIP, Port), now, 1000, "Started"),
                 IPv4(126, id), PeersWantedOnly(MaxCrowd))

AskCrowd ==
    \E id \in {1, Cardinality(DOMAIN PeersOf(torrents, "h1"))}, peers_wanted \in PeersWantedInputs :
        /\ last.op = "announce" /\ last.peers_wanted = PeersWantedOnly(MaxCrowd)
        /\ announce("h1", Peer(id, SocketAddr(DraftIP, Port), now, 1000, "Started"),
                    IPv4(126, id), peers_wanted)

InitWanted == InitCap

NextWanted == JoinCrowd \/ AskCrowd

SpecWanted == InitWanted /\ [][NextWanted]_vars

(***************************************************************************)
(* SpecPersistConc: two server tasks share a tracker that persists the     *)
(* downloaded counters, and each handles one announce after the other on   *)
(* h1.  upsert_peer_and_get_stats is three calls on the repository and,    *)
(* when the metadata changed, one on the database, each atomic on its own; *)
(* nothing is held from one to the next.  Every save succeeds.             *)
(***************************************************************************)
\* announce, up to the first get_swarm_metadata of upsert_peer_and_get_stats.
AnnounceGetBefore(t) ==
    \E request \in ConcRequests :
        LET peer == change_ip(request[1],
                              assign_ip_address_to_peer(request[2], config.net.external_ip))
        IN  /\ calls' = Put(calls, t,
                            [op |-> "announce", info_hash |-> "h1", peer |-> peer, pc |-> "upsert",
                             swarm_metadata_before |-> swarm_metadata_or_zeroed(torrents, "h1"),
                             swarm_metadata_after |-> zeroed])
            /\ last' = [op |-> "begin", thread |-> t, now |-> now]
            /\ UNCHANGED <<config, now, torrents, dbTorrents, keys, dbKeys, whitelist, dbWhitelist, history>>

\* self.torrents.upsert_peer(info_hash, peer)
AnnounceUpsertPeer(t) ==
    LET call == calls[t]
        upserted == repo_upsert_peer(torrents, call.info_hash, call.peer)
    IN  /\ call.pc = "upsert"
        /\ upserted[call.info_hash].downloaded <= MaxDownloaded
        /\ torrents' = upserted
        /\ calls' = [calls EXCEPT ![t].pc = "after"]
        /\ last' = [op |-> "upsert", thread |-> t]
        /\ UNCHANGED <<config, now, dbTorrents, keys, dbKeys, whitelist, dbWhitelist, history>>

\* The second get_swarm_metadata, and the comparison with the first.
AnnounceGetAfter(t) ==
    LET call == calls[t]
        swarm_metadata_after == swarm_metadata_or_zeroed(torrents, call.info_hash)
    IN  /\ call.pc = "after"
        /\ calls' = [calls EXCEPT
                        ![t].pc = IF call.swarm_metadata_before # swarm_metadata_after
                                  THEN "persist" ELSE "return",
                        ![t].swarm_metadata_after = swarm_metadata_after]
        /\ last' = [op |-> "measure", thread |-> t]
        /\ UNCHANGED <<config, now, torrents, dbTorrents, keys, dbKeys, whitelist, dbWhitelist, history>>

\* persist_stats: self.database.save_persistent_torrent(&info_hash, completed)
AnnounceSave(t) ==
    LET call == calls[t]
    IN  /\ call.pc = "persist"
        /\ dbTorrents' = IF config.tracker_policy.persistent_torrent_completed_stat
                         THEN Put(dbTorrents, call.info_hash, call.swarm_metadata_after.downloaded)
                         ELSE dbTorrents
        /\ calls' = [calls EXCEPT ![t].pc = "return"]
        /\ last' = [op |-> "save", thread |-> t, completed |-> call.swarm_metadata_after.downloaded]
        /\ UNCHANGED <<config, now, torrents, keys, dbKeys, whitelist, dbWhitelist, history>>

\* upsert_peer_and_get_stats returns, and announce after it.
AnnounceEnd(t) ==
    LET call == calls[t]
    IN  /\ call.pc = "return"
        /\ calls' = Del(calls, t)
        /\ last' = [op |-> "announce", thread |-> t, info_hash |-> call.info_hash,
                    stats |-> call.swarm_metadata_after]
        /\ UNCHANGED <<config, now, torrents, dbTorrents, keys, dbKeys, whitelist, dbWhitelist, history>>

PersistCallBegin == \E t \in Threads \ DOMAIN calls : AnnounceGetBefore(t)

PersistCallStep ==
    \E t \in DOMAIN calls :
        AnnounceUpsertPeer(t) \/ AnnounceGetAfter(t) \/ AnnounceSave(t) \/ AnnounceEnd(t)

InitPersistConc ==
    /\ config = Config(FALSE, FALSE, None, 1, TRUE, TRUE, None)
    /\ now = 0
    /\ torrents = EmptyMap
    /\ dbTorrents = EmptyMap
    /\ keys = EmptyMap
    /\ dbKeys = EmptyMap
    /\ whitelist = {}
    /\ dbWhitelist = {}
    /\ last = [op |-> "init"]
    /\ calls = EmptyMap
    /\ history = NotRecorded

NextPersistConc == PersistCallBegin \/ PersistCallStep

SpecPersistConc == InitPersistConc /\ [][NextPersistConc]_vars

(***************************************************************************)
(* SpecLive: the cleanup job keeps being run and the clock keeps advancing *)
(* (weak fairness of both), up to the end of the clock's range.  Two       *)
(* clients announce on h1 with the time of the clock, as long as the clock *)
(* can still pass their timeout; counters are persisted or not, peerless   *)
(* torrents removed or not, and the timeout is 0 or 1.                     *)
(***************************************************************************)
LiveRequests ==
    {request \in TimedRequests : request[1].event \in {"Started", "Completed"}}

AnnounceLive ==
    \E request \in LiveRequests :
        /\ request[1].updated = now
        /\ now + config.tracker_policy.max_peer_timeout < MaxTime
        /\ announce("h1", request[1], request[2], PeersWantedAll)

InitLive ==
    /\ config \in {Config(FALSE, FALSE, None, timeout, persistent, peerless, None) :
                     timeout \in {0, 1}, persistent \in BOOLEAN, peerless \in BOOLEAN}
    /\ now = 0
    /\ torrents = EmptyMap
    /\ dbTorrents = EmptyMap
    /\ keys = EmptyMap
    /\ dbKeys = EmptyMap
    /\ whitelist = {}
    /\ dbWhitelist = {}
    /\ last = [op |-> "init"]
    /\ calls = EmptyMap
    /\ history = NotRecorded

NextLive == AnnounceLive \/ Cleanup \/ Tick

SpecLive == InitLive /\ [][NextLive]_vars /\ WF_vars(Cleanup) /\ WF_vars(Tick)

(***************************************************************************)
(* SpecFrame: a tracker of any mode that persists its counters, with one   *)
(* key in its key store, h1 on its whitelist and a record of h2 in the     *)
(* torrents table, under announces of one client on both info-hashes and   *)
(* under the queries of the facade.                                        *)
(***************************************************************************)
AnnounceFrame ==
    \E h \in InfoHashes, request \in LiveRequests :
        /\ request[1].updated = now
        /\ request[1].peer_id = 1
        /\ announce(h, request[1], request[2], PeersWantedAll)

InitFrame ==
    /\ config \in {Config(private, listed, None, 1, TRUE, TRUE, None) :
                     private \in BOOLEAN, listed \in BOOLEAN}
    /\ now = 0
    /\ torrents = EmptyMap
    /\ dbTorrents = Put(EmptyMap, "h2", 1)
    /\ keys = Put(EmptyMap, "k1", None)
    /\ dbKeys = Put(EmptyMap, "k1", None)
    /\ whitelist = {"h1"}
    /\ dbWhitelist = {"h1"}
    /\ last = [op |-> "init"]
    /\ calls = EmptyMap
    /\ history = NotRecorded

NextFrame ==
    \/ AnnounceFrame
    \/ Scrape
    \/ Authenticate
    \/ Authorize
    \/ GetTorrentPeers
    \/ GetTorrentsMetrics

SpecFrame == InitFrame /\ [][NextFrame]_vars

(***************************************************************************)
(* Claims checked under Spec.                                              *)
(***************************************************************************)
\* C1: the peer list an announce returns holds no peer with the socket address
\* (assigned IP and port) of the announcing peer.
C1_NoSelfInPeers ==
    last.op = "announce" =>
        \A p \in last.peers : p.peer_addr # last.peer.peer_addr

\* An announce whose swarm holds a second peer at the announcer's own address.
C1_Witness ==
    /\ last.op = "announce"
    /\ \E k \in DOMAIN PeersOf(torrents, last.info_hash) :
          /\ k # last.peer.peer_id
          /\ torrents[last.info_hash].peers[k].peer_addr = last.peer.peer_addr
    /\ last.peers = {}

\* C3: an announce raises the swarm's downloaded counter by exactly one when
\* the event is Completed and the swarm already held an entry for the peer,
\* and leaves it unchanged in every other case.
C3_DownloadedStep ==
    [][last'.op = "announce" =>
        LET h == last'.info_hash
            held == last'.peer.peer_id \in DOMAIN PeersOf(torrents, h)
        IN  DownloadedOf(torrents', h) =
                DownloadedOf(torrents, h)
                    + (IF last'.peer.event = "Completed" /\ held THEN 1 ELSE 0)]_vars

\* A Completed announce of a known peer has raised the counter to 2, and a
\* first-sighting Completed has left it at 0.
C3_Witness ==
    /\ last.op = "announce" /\ last.info_hash = "h1"
    /\ last.peer.event = "Completed"
    /\ last.stats.downloaded = 2
    /\ "h2" \in DOMAIN torrents
    /\ torrents["h2"].downloaded = 0
    /\ \E k \in DOMAIN torrents["h2"].peers : torrents["h2"].peers[k].event = "Completed"

\* C5 (as the code has it): the peer table of a swarm is keyed by peer_id.  No
\* swarm ever holds two peers with one peer_id; an announce whose peer_id the
\* swarm already holds replaces that entry, whatever its address, and leaves
\* the peer count unchanged; an announce with a new peer_id adds a peer, also
\* when its address is that of a stored peer.
C5_KeyedByPeerId ==
    /\ [](\A h \in DOMAIN torrents : \A k1, k2 \in DOMAIN torrents[h].peers :
             k1 # k2 => torrents[h].peers[k1].peer_id # torrents[h].peers[k2].peer_id)
    /\ [][last'.op = "announce" =>
            LET old == Values(PeersOf(torrents, last'.info_hash))
                new == Values(PeersOf(torrents', last'.info_hash))
                known == \E p \in old : p.peer_id = last'.peer.peer_id
            IN  /\ last'.peer \in new
                /\ Cardinality(new) = Cardinality(old) + (IF known THEN 0 ELSE 1)
                /\ \A p \in old : p.peer_id # last'.peer.peer_id => p \in new]_vars

\* Two clients with different peer_ids sit at one socket address of one swarm.
C5_Witness ==
    /\ last.op = "announce"
    /\ Cardinality(DOMAIN PeersOf(torrents, last.info_hash)) = 2
    /\ \A p \in Values(PeersOf(torrents, last.info_hash)) : p.peer_addr = last.peer.peer_addr

\* C5 (as the specification has it): a swarm holds at most one peer per
\* socket address.
C5_OnePeerPerSocketAddr ==
    \A h \in DOMAIN torrents : \A p, q \in Values(torrents[h].peers) :
        p.peer_addr = q.peer_addr => p = q

\* C6: a scrape answers with a map whose keys are exactly the requested
\* info-hashes, and a requested info-hash without a swarm maps to the zeroed
\* metadata.
C6_ScrapeTotal ==
    last.op = "scrape" =>
        /\ DOMAIN last.files = Range(last.info_hashes)
        /\ \A h \in Range(last.info_hashes) :
              h \notin DOMAIN torrents => last.files[h] = zeroed

\* A scrape of two torrents, the whitelisted one unknown to the repository.
C6_Witness ==
    /\ last.op = "scrape"
    /\ Range(last.info_hashes) = {"h1", "h2"}
    /\ "h1" \notin DOMAIN torrents
    /\ "h2" \in DOMAIN torrents
    /\ last.files["h1"] = zeroed

\* C7: on a listed tracker a scrape answers the zeroed metadata for every
\* requested info-hash that is not whitelisted, whatever its swarm holds.
C7_UnlistedZeroed ==
    (last.op = "scrape" /\ config.listed) =>
        \A h \in Range(last.info_hashes) :
            h \notin whitelist => last.files[h] = zeroed

\* A scrape of a torrent that is not whitelisted and whose swarm holds a
\* seeder and a counted download.
C7_Witness ==
    /\ last.op = "scrape" /\ config.listed
    /\ \E h \in Range(last.info_hashes) :
          /\ h \notin whitelist
          /\ h \in DOMAIN torrents
          /\ torrents[h].downloaded > 0
          /\ get_swarm_metadata(h).complete > 0
          /\ last.files[h] = zeroed

(***************************************************************************)
(* Claims checked under SpecCap.                                           *)
(***************************************************************************)
\* C2: the peer list an announce returns never holds more than
\* TORRENT_PEERS_LIMIT (74) peers, whatever the peers_wanted value.
C2_AtMost74 ==
    last.op = "announce" => Cardinality(last.peers) <= TORRENT_PEERS_LIMIT

(***************************************************************************)
(* Claims checked under SpecPersist.                                       *)
(***************************************************************************)
\* C4: the downloaded counter of a swarm entry never decreases: no announce,
\* cleanup or load_torrents_from_database lowers the counter of an entry it
\* leaves in the repository.
C4_DownloadedNeverDecreases ==
    [][\A h \in DOMAIN torrents \cap DOMAIN torrents' :
          torrents'[h].downloaded >= torrents[h].downloaded]_vars

(***************************************************************************)
(* Claims checked under SpecTime.                                          *)
(***************************************************************************)
IsActiveAt(peer) == peer.updated >= now - config.tracker_policy.max_peer_timeout

ExpirationChecked ==
    config.private_mode = None \/ config.private_mode[1].check_keys_expiration

\* C10: with key expiration checked, authenticate(k) is Ok exactly when the
\* tracker is public, or k is in the key store and is permanent or not yet
\* past its valid_until; on a private tracker a key that is not in the store
\* gives UnableToReadKey and a key past its valid_until gives KeyExpired.
C10_Authenticate ==
    (last.op = "authenticate" /\ ExpirationChecked) =>
        LET k == last.key
            stored == k \in DOMAIN keys
        IN  /\ last.result = "Ok" <=>
                  \/ ~config.private
                  \/ stored /\ (keys[k] = None \/ now <= keys[k][1])
            /\ (config.private /\ ~stored) => last.result = "UnableToReadKey"
            /\ (config.private /\ stored /\ keys[k] # None /\ now > keys[k][1]) =>
                   last.result = "KeyExpired"

\* On a private tracker a key past its valid_until is refused while a
\* permanent key sits in the store at the end of the clock's range.
C10_Witness ==
    /\ last.op = "authenticate" /\ ExpirationChecked /\ config.private
    /\ last.result = "KeyExpired"
    /\ now = MaxTime
    /\ \E k \in DOMAIN keys : keys[k] = None

\* C11: on a private tracker with private_mode.check_keys_expiration = false,
\* authenticate(k) is Ok for every key of the in-memory store, whatever its
\* valid_until and the clock, and fails for every key that is not in the store.
C11_ExpirationNotChecked ==
    (/\ last.op = "authenticate" /\ config.private
     /\ config.private_mode = Some([check_keys_expiration |-> FALSE])) =>
        /\ last.key \in DOMAIN keys => last.result = "Ok"
        /\ last.key \notin DOMAIN keys => last.result = "UnableToReadKey"

\* With the check disabled, a key that expired at 0 is accepted at the end of
\* the clock's range while the other key is not in the store.
C11_Witness ==
    /\ last.op = "authenticate" /\ config.private
    /\ config.private_mode = Some([check_keys_expiration |-> FALSE])
    /\ last.key \in DOMAIN keys /\ keys[last.key] = Some(0)
    /\ now = MaxTime
    /\ last.result = "Ok"
    /\ DOMAIN keys # Keys

(***************************************************************************)
(* Claims checked under SpecKeysConc.                                      *)
(***************************************************************************)
\* C12: once every key operation has returned, a key is in the in-memory
\* store if and only if it is in the persisted key table.
C12_KeysMatchPersistence ==
    calls = EmptyMap => DOMAIN keys = DOMAIN dbKeys

\* C15: when load_keys_from_database has returned Ok, with no other call in
\* flight, the in-memory key map equals the persisted key table.
C15_LoadEqualsPersistence ==
    (last.op = "load_keys" /\ last.result = "Ok" /\ calls = EmptyMap) => keys = dbKeys


(***************************************************************************)
(* Claims checked under SpecStores.                                        *)
(***************************************************************************)
StoreOps ==
    {"add_auth_key", "generate_auth_key", "remove_auth_key", "load_keys",
     "add_torrent_to_whitelist", "remove_torrent_from_whitelist", "load_whitelist"}

\* C13: when the persistence call of add_auth_key, generate_auth_key,
\* remove_auth_key, add_torrent_to_whitelist, remove_torrent_from_whitelist,
\* load_keys_from_database or load_whitelist_from_database fails, the
\* operation returns the error and the in-memory key store and whitelist are
\* exactly as before the call.
C13_FailureLeavesMemory ==
    [][(last'.op \in StoreOps /\ last'.db = "failed")
         => (last'.result = "Err" /\ keys' = keys /\ whitelist' = whitelist)]_vars

\* add_auth_key has failed on a key the table already holds, with a key
\* store and a whitelist that have something to lose.
C13_Witness ==
    /\ last.op = "add_auth_key"
    /\ last.db = "failed"
    /\ last.result = "Err"
    /\ last.key \in DOMAIN dbKeys
    /\ keys # EmptyMap
    /\ whitelist # {}

\* C14: for a key k not in the store, a successful add_auth_key(k, v)
\* followed by a successful remove_auth_key(k) leaves the in-memory key
\* store and the persisted key table as they were before the add, and
\* authenticate(k) then fails in private mode.
C14_AddThenRemove ==
    [][(/\ last.op = "add_auth_key"
        /\ last.result = "Ok"
        /\ last.key \notin DOMAIN last.before.keys
        /\ last'.op = "remove_auth_key"
        /\ last'.result = "Ok"
        /\ last'.key = last.key)
         => (/\ keys' = last.before.keys
             /\ dbKeys' = last.before.dbKeys
             /\ (is_private => (authenticate(last.key))' # "Ok"))]_vars

\* The key just removed is the one the preceding call added, beside another
\* key that stays.
C14_Witness ==
    /\ last.op = "remove_auth_key"
    /\ last.result = "Ok"
    /\ last.undoes
    /\ last.key \notin DOMAIN keys
    /\ last.key \notin DOMAIN dbKeys
    /\ keys # EmptyMap
    /\ is_private
    /\ authenticate(last.key) # "Ok"

\* C16: from any prior state of memory and persistence, a successful
\* add_torrent_to_whitelist(h) leaves h in both the in-memory and the
\* persisted whitelist and a successful remove_torrent_from_whitelist(h)
\* leaves it in neither, nothing else changing; a second add or remove, its
\* database calls succeeding, succeeds and changes nothing; memory is
\* reconciled even when persistence was already in the intended state.
C16_WhitelistAddRemove ==
    /\ (last.op = "add_torrent_to_whitelist" /\ last.result = "Ok")
         => /\ whitelist = last.before.whitelist \cup {last.info_hash}
            /\ dbWhitelist = last.before.db \cup {last.info_hash}
    /\ (last.op = "remove_torrent_from_whitelist" /\ last.result = "Ok")
         => /\ whitelist = last.before.whitelist \ {last.info_hash}
            /\ dbWhitelist = last.before.db \ {last.info_hash}
    /\ (/\ last.op = "add_torrent_to_whitelist"
        /\ last.db = "ok"
        /\ last.info_hash \in last.before.whitelist \cap last.before.db)
         => /\ last.result = "Ok"
            /\ whitelist = last.before.whitelist
            /\ dbWhitelist = last.before.db
    /\ (/\ last.op = "remove_torrent_from_whitelist"
        /\ last.db = "ok"
        /\ last.info_hash \notin last.before.whitelist \cup last.before.db)
         => /\ last.result = "Ok"
            /\ whitelist = last.before.whitelist
            /\ dbWhitelist = last.before.db

\* An add has succeeded on an info-hash the table already held and memory
\* did not.
C16_Witness ==
    /\ last.op = "add_torrent_to_whitelist"
    /\ last.result = "Ok"
    /\ last.info_hash \in last.before.db
    /\ last.info_hash \notin last.before.whitelist
    /\ last.info_hash \in whitelist

\* C18: authorize(h) returns Ok when the tracker is not listed, whatever the
\* whitelist holds; Ok when the tracker is listed and h is in the in-memory
\* whitelist; otherwise it fails with TorrentNotWhitelisted carrying h.
C18_Authorize ==
    last.op = "authorize"
      => /\ ~config.listed => last.result = AuthorizeOk
         /\ (config.listed /\ last.info_hash \in whitelist) => last.result = AuthorizeOk
         /\ (config.listed /\ last.info_hash \notin whitelist)
              => last.result = TorrentNotWhitelisted(last.info_hash)

\* A listed tracker has refused an info-hash while it whitelists another one.
C18_Witness ==
    /\ last.op = "authorize"
    /\ config.listed
    /\ last.info_hash \notin whitelist
    /\ whitelist # {}
    /\ last.result = TorrentNotWhitelisted(last.info_hash)


C20_AssignIp ==
    last.op = "assign_ip_address_to_peer"
      => LET remote == last.remote_client_ip
             loopback == \/ remote.v = 4 /\ remote.a = 127
                         \/ remote.v = 6 /\ remote.a = 0 /\ remote.d = 1
         IN  IF loopback /\ last.tracker_external_ip # None
             THEN last.result = last.tracker_external_ip[1]
             ELSE last.result = remote

\* A client on the IPv4 loopback has been given the IPv6 external IP of the
\* tracker.
C20_Witness ==
    /\ last.op = "assign_ip_address_to_peer"
    /\ last.remote_client_ip.v = 4
    /\ last.remote_client_ip.a = 127
    /\ last.tracker_external_ip # None
    /\ last.result.v = 6
    /\ last.result = config.net.external_ip[1]

(***************************************************************************)
(* Claims checked under SpecIp.                                            *)
(***************************************************************************)
\* The IP the rule of assign_ip_address_to_peer gives: the external IP for
\* a loopback client of a tracker that has one, the client's IP otherwise.
AssignedIp(remote_client_ip, external_ip) ==
    IF /\ external_ip # None
       /\ \/ remote_client_ip.v = 4 /\ remote_client_ip.a = 127
          \/ remote_client_ip.v = 6 /\ remote_client_ip.a = 0 /\ remote_client_ip.d = 1
    THEN external_ip[1]
    ELSE remote_client_ip

\* C21: every peer stored by announce has as IP the value the IP assignment
\* gives for that announce's remote_client_ip and the configured
\* external_ip, not the IP the client put in the peer draft; the caller's
\* peer carries that same IP after announce returns, and the port (as the
\* rest of the peer) is unchanged.
C21_StoredIpIsAssigned ==
    /\ \A h \in DOMAIN torrents : \A p \in Values(torrents[h].peers) :
          /\ p.peer_addr.ip # DraftIP
          /\ \E request \in IpRequests :
                p.peer_addr.ip = AssignedIp(request[2], config.net.external_ip)
    /\ last.op = "announce"
         => LET assigned == AssignedIp(last.remote_client_ip, config.net.external_ip)
            IN  /\ last.peer.peer_addr.ip = assigned
                /\ last.peer.peer_addr.port = last.draft.peer_addr.port
                /\ last.peer = [last.draft EXCEPT !.peer_addr.ip = assigned]
                /\ PeersOf(torrents, last.info_hash)[peer_list_key(last.peer)] = last.peer

\* A client on the IPv6 loopback that sent DraftIP is stored with the IPv4
\* external IP of the tracker, beside a peer stored with its own remote IP.
C21_Witness ==
    /\ last.op = "announce"
    /\ last.draft.peer_addr.ip = DraftIP
    /\ last.remote_client_ip = IPv6(0, 1)
    /\ config.net.external_ip = Some(IPv4(126, 2))
    /\ PeersOf(torrents, "h1")[peer_list_key(last.peer)].peer_addr = SocketAddr(IPv4(126, 2), Port)
    /\ \E p \in Values(PeersOf(torrents, "h1")) : p.peer_addr.ip = IPv4(128, 1)

(***************************************************************************)
(* Claims about cleanups and loads (SpecTime, SpecSwarms).                 *)
(***************************************************************************)
\* The cutoff of a cleanup run at the current clock value.
CutoffNow ==
    IF now < config.tracker_policy.max_peer_timeout
    THEN 0
    ELSE now - config.tracker_policy.max_peer_timeout

\* C22: cleanup_torrents run at clock value now removes from every swarm
\* exactly the peers whose updated is strictly below cutoff = now -
\* max_peer_timeout, the cutoff being 0 when now < max_peer_timeout (nothing
\* is removed then); every peer with updated >= cutoff is still present,
\* unchanged, after the cleanup.
C22_CleanupEvictsBelowCutoff ==
    last.op = "cleanup"
      => \A h \in DOMAIN last.before :
            LET old == last.before[h].peers
                new == PeersOf(torrents, h)
            IN  /\ \A k \in DOMAIN old :
                      IF old[k].updated < CutoffNow
                      THEN k \notin DOMAIN new
                      ELSE k \in DOMAIN new /\ new[k] = old[k]
                /\ DOMAIN new \subseteq DOMAIN old
                /\ now < config.tracker_policy.max_peer_timeout => new = old

\* A cleanup has evicted one peer of h1 and kept the other, whose updated
\* is the cutoff itself.
C22_Witness ==
    /\ last.op = "cleanup"
    /\ "h1" \in DOMAIN last.before
    /\ Cardinality(DOMAIN last.before["h1"].peers) = 2
    /\ Cardinality(DOMAIN PeersOf(torrents, "h1")) = 1
    /\ \E p \in Values(PeersOf(torrents, "h1")) : p.updated = CutoffNow
    /\ CutoffNow > 0

\* C23: a swarm entry is created only by the first upsert for its info-hash
\* or by a persistence import, and is removed only by cleanup_torrents, and
\* only when remove_peerless_torrents is set and the swarm has no active
\* peer: with the policy unset a cleanup never removes an entry, and a
\* swarm that still has an active peer after the eviction is never removed.
C23_EntryLifecycle ==
    [][/\ \A h \in DOMAIN torrents' \ DOMAIN torrents :
             \/ last'.op = "announce" /\ last'.info_hash = h
             \/ last'.op = "load_torrents" /\ h \in DOMAIN dbTorrents
       /\ \A h \in DOMAIN torrents \ DOMAIN torrents' :
             /\ last'.op = "cleanup"
             /\ config.tracker_policy.remove_peerless_torrents
             /\ \A p \in Values(torrents[h].peers) : p.updated < CutoffNow]_vars

\* A cleanup has removed the swarm of h1, whose peers it evicted, and kept
\* the swarm of h2.
C23_Witness ==
    /\ last.op = "cleanup"
    /\ config.tracker_policy.remove_peerless_torrents
    /\ DOMAIN last.before = {"h1", "h2"}
    /\ DOMAIN torrents = {"h2"}
    /\ last.before["h1"].peers # EmptyMap

\* C24: load_torrents_from_database restores downloaded counters and never
\* peers: for every persisted record (h, d) whose swarm is absent from
\* memory it creates an entry with downloaded = d and an empty peer table,
\* and for every swarm already in memory it leaves the peer table exactly
\* as it was.
C24_LoadRestoresCounters ==
    (last.op = "load_torrents" /\ last.result = "Ok")
      => /\ \A h \in DOMAIN dbTorrents \ DOMAIN last.before :
               /\ h \in DOMAIN torrents
               /\ torrents[h] = [peers |-> EmptyMap, downloaded |-> dbTorrents[h]]
         /\ \A h \in DOMAIN last.before :
               /\ h \in DOMAIN torrents
               /\ torrents[h].peers = last.before[h].peers
         /\ DOMAIN torrents = DOMAIN last.before \cup DOMAIN dbTorrents

\* A load has created the entry of h2 with its persisted counter while the
\* swarm of h1 kept its peer.
C24_Witness ==
    /\ last.op = "load_torrents"
    /\ last.result = "Ok"
    /\ "h2" \notin DOMAIN last.before
    /\ "h2" \in DOMAIN torrents
    /\ torrents["h2"].downloaded = 1
    /\ torrents["h2"].peers = EmptyMap
    /\ "h1" \in DOMAIN last.before
    /\ PeersOf(torrents, "h1") # EmptyMap

(***************************************************************************)
(* Claims checked under SpecPersist.                                       *)
(***************************************************************************)
\* C25: with persistent_torrent_completed_stat set, a failure of
\* save_persistent_torrent during an announce is swallowed: the announce
\* returns the AnnounceData, and leaves the in-memory swarm state, that it
\* would have with a successful save; only the database differs.
C25_FailedSaveSwallowed ==
    [][(last'.op = "announce" /\ last'.save = "failed")
         => LET h == last'.info_hash
                saved == repo_upsert_peer(torrents, h, last'.peer)
            IN  /\ config.tracker_policy.persistent_torrent_completed_stat
                /\ torrents' = saved
                /\ last'.stats = entry_get_swarm_metadata(saved[h])
                /\ last'.peers \in get_peers_for(saved, h, last'.peer, limit(last'.peers_wanted))
                /\ last'.policy = config.announce_policy
                /\ dbTorrents' = dbTorrents]_vars

\* The save of a completed download has failed: memory counts it, the
\* announce has returned it, and the database has not got it.
C25_Witness ==
    /\ last.op = "announce"
    /\ last.save = "failed"
    /\ last.stats.downloaded = 1
    /\ DownloadedOf(torrents, "h1") = 1
    /\ "h1" \in DOMAIN dbTorrents
    /\ dbTorrents["h1"] = 0

(***************************************************************************)
(* Claims checked under SpecAnnounceConc.                                  *)
(***************************************************************************)
\* C26: upsert-and-measure is atomic with respect to concurrent announces
\* on the same swarm: the stats an announce returns are the swarm's
\* metadata in the state right after its own upsert (so they count the
\* announcing peer: complete >= 1 for a seeder, incomplete >= 1 for a
\* leecher), and the before/after pair that decides the save brackets that
\* upsert alone.
C26_UpsertAndMeasureAtomic ==
    last.op = "announce"
      => /\ last.stats = last.own_after
         /\ last.swarm_metadata_before = last.own_before
         /\ last.peer.left = 0 => last.stats.complete >= 1
         /\ last.peer.left > 0 => last.stats.incomplete >= 1

\* The outcome of the announces of peers p then q, one after the other,
\* from the repository ts: the repository left, and the stats each returns.
SerialOutcome(ts, h, p, q) ==
    LET first == repo_upsert_peer(ts, h, p)
        second == repo_upsert_peer(first, h, q)
    IN  [torrents |-> second,
         stats_p |-> swarm_metadata_or_zeroed(first, h),
         stats_q |-> swarm_metadata_or_zeroed(second, h)]

\* C27: two concurrent announces for the same info-hash and socket address
\* are linearizable: the peer entry and the downloaded counter they leave,
\* and the stats each returns, are those of one of the two serial orders.
C27_Linearizable ==
    (/\ DOMAIN calls = Threads
     /\ \A t \in Threads : calls[t].pc = "returned"
     /\ calls[1].info_hash = calls[2].info_hash
     /\ calls[1].peer.peer_addr = calls[2].peer.peer_addr)
      => LET h == calls[1].info_hash
             p == calls[1].peer
             q == calls[2].peer
             outcome == [torrents |-> torrents,
                         stats_p |-> calls[1].swarm_metadata_after,
                         stats_q |-> calls[2].swarm_metadata_after]
             pq == SerialOutcome(calls[1].start, h, p, q)
             qp == SerialOutcome(calls[1].start, h, q, p)
         IN  \/ outcome = pq
             \/ outcome = [torrents |-> qp.torrents, stats_p |-> qp.stats_q, stats_q |-> qp.stats_p]

(***************************************************************************)
(* Claims checked under SpecScrapeConc.                                    *)
(***************************************************************************)
\* C28: under concurrent announces and cleanups, the {complete, incomplete,
\* downloaded} triple a scrape returns for an authorized info-hash is the
\* metadata of that swarm in one single state it had between the scrape's
\* start and its end, never a mix of two states.
C28_ScrapeSnapshot ==
    last.op = "scrape" => last.files \in last.seen

\* A scrape has returned the counted download of a swarm that went through
\* three states while the scrape ran and was removed before the scrape read
\* the entry it held.
C28_Witness ==
    /\ last.op = "scrape"
    /\ last.detached
    /\ Cardinality(last.seen) >= 3
    /\ last.files.downloaded >= 1
    /\ last.files \in last.seen
    /\ "h1" \notin DOMAIN torrents

(***************************************************************************)
(* Claims checked under SpecCount.                                         *)
(***************************************************************************)
\* The latest announces of a record that the latest cleanup, if any, would
\* have kept: those whose updated is at or after its cutoff.
AtOrAfterCutoff(latest) ==
    {k \in DOMAIN latest :
        history.cutoff = None \/ latest[k].updated >= history.cutoff[1]}

\* The latest announces of a record that are still in force: those that came
\* after the latest cleanup, and those that it kept.
InForce(latest) ==
    {k \in DOMAIN latest :
        \/ latest[k].since
        \/ history.cutoff = None
        \/ latest[k].updated >= history.cutoff[1]}

\* C29 (as the code has it): after any sequence of announces and cleanups, the
\* peer table of a swarm holds one entry for each peer_id whose most recent
\* announce either came after the most recent cleanup or has updated at or
\* after the cutoff of that cleanup (every announced peer_id when no cleanup
\* ran), and these are the peer_ids of the table.
C29_EntriesAreLivePeerIds ==
    \A h \in InfoHashes :
        /\ {p.peer_id : p \in Values(PeersOf(torrents, h))} = InForce(history.by_id[h])
        /\ Cardinality(DOMAIN PeersOf(torrents, h)) = Cardinality(InForce(history.by_id[h]))

\* A cleanup ran and evicted one client; the other announced after it with an
\* update time before its cutoff and is in the table, at the address the
\* evicted client announced from last.
C29_Witness ==
    /\ last.op = "announce"
    /\ history.cutoff # None
    /\ DOMAIN history.by_id["h1"] = PeerIds
    /\ Cardinality(DOMAIN PeersOf(torrents, "h1")) = 1
    /\ last.peer.updated < history.cutoff[1]
    /\ DOMAIN history.by_addr["h1"] = {last.peer.peer_addr}

\* C29 (as the specification has it): the number of entries of the peer table
\* of a swarm is the number of distinct socket addresses whose most recent
\* announce has updated at or after the cutoff of the most recent cleanup.
C29_EntriesAreLiveSocketAddrs ==
    \A h \in InfoHashes :
        Cardinality(DOMAIN PeersOf(torrents, h)) = Cardinality(AtOrAfterCutoff(history.by_addr[h]))

(***************************************************************************)
(* Claims checked under Spec: the replay of an announce.                   *)
(***************************************************************************)
\* C30: peer state is idempotent under replay of the same announce.  When an
\* announce is issued a second time, right after the first, with the same
\* info_hash, the same peer draft and the same client IP, the swarms (peer
\* tables and counters) are after it what they were after the first.
C30_ReplayIdempotent ==
    [][(/\ last.op = "announce"
        /\ last'.op = "announce"
        /\ last'.info_hash = last.info_hash
        /\ last'.draft = last.draft
        /\ last'.remote_client_ip = last.remote_client_ip)
       => torrents' = torrents]_vars

(***************************************************************************)
(* Claims checked under SpecPeers.                                         *)
(***************************************************************************)
\* C31: get_torrent_peers(h) returns min(n, 74) peers, n being the number of
\* peers of the swarm of h; each is an entry of the peer table of h and no two
\* of them are the same entry; for an info-hash without a swarm entry it
\* returns the empty list.
C31_TorrentPeers ==
    last.op = "get_torrent_peers" =>
        LET table == PeersOf(torrents, last.info_hash)
            n == Cardinality(DOMAIN table)
        IN  /\ Cardinality(last.peers) = (IF n <= TORRENT_PEERS_LIMIT THEN n ELSE TORRENT_PEERS_LIMIT)
            /\ \A p \in last.peers :
                  peer_list_key(p) \in DOMAIN table /\ table[peer_list_key(p)] = p
            /\ \A p, q \in last.peers : peer_list_key(p) = peer_list_key(q) => p = q
            /\ last.info_hash \notin DOMAIN torrents => last.peers = {}

\* The swarm has more than 74 peers and get_torrent_peers returned 74 of them.
C31_Witness ==
    /\ last.op = "get_torrent_peers"
    /\ Cardinality(DOMAIN PeersOf(torrents, last.info_hash)) > TORRENT_PEERS_LIMIT
    /\ Cardinality(last.peers) = TORRENT_PEERS_LIMIT

(***************************************************************************)
(* Claims checked under SpecMetrics.                                       *)
(***************************************************************************)
\* The active peers of all swarms that are seeders (left = 0) or leechers.
ActivePeersOfAll(seeders) ==
    {<<h, k>> \in InfoHashes \X PeerIds :
        /\ k \in DOMAIN PeersOf(torrents, h)
        /\ IsActiveAt(torrents[h].peers[k])
        /\ (torrents[h].peers[k].left = 0) = seeders}

\* C32: called with no operation in flight, get_torrents_metrics returns
\* torrents = the number of swarm entries in memory and complete, incomplete
\* and downloaded = the sums over all swarms of these fields of their
\* metadata (the active seeders, the active leechers and the stored
\* counters); on a fresh tracker all four are 0.
C32_TorrentsMetrics ==
    last.op = "get_torrents_metrics" =>
        /\ last.metrics.torrents = Cardinality(DOMAIN torrents)
        /\ last.metrics.complete = Cardinality(ActivePeersOfAll(TRUE))
        /\ last.metrics.incomplete = Cardinality(ActivePeersOfAll(FALSE))
        /\ last.metrics.downloaded = DownloadedOf(torrents, "h1") + DownloadedOf(torrents, "h2")
        /\ last.metrics.complete =
              get_swarm_metadata("h1").complete + get_swarm_metadata("h2").complete
        /\ last.metrics.incomplete =
              get_swarm_metadata("h1").incomplete + get_swarm_metadata("h2").incomplete
        /\ torrents = EmptyMap =>
              last.metrics = [complete |-> 0, downloaded |-> 0, incomplete |-> 0, torrents |-> 0]

\* The metrics of two swarms with an active seeder, an active leecher, a peer
\* that is no longer active and a counted download among them.
C32_Witness ==
    /\ last.op = "get_torrents_metrics"
    /\ last.metrics.torrents = 2
    /\ last.metrics.complete = 1
    /\ last.metrics.incomplete = 1
    /\ last.metrics.downloaded > 0
    /\ \E h \in DOMAIN torrents : \E k \in DOMAIN torrents[h].peers :
          ~IsActiveAt(torrents[h].peers[k])

(***************************************************************************)
(* Claims checked under SpecPeerKeys.                                      *)
(***************************************************************************)
\* The add_peer_key call that `last` holds uploaded a text that is no key.
UploadedInvalidKey ==
    /\ last.op = "add_peer_key"
    /\ last.add_key_req.opt_key # None
    /\ last.add_key_req.opt_key[1] \notin Keys

\* The add_peer_key call that `last` holds uploaded a key with a lifetime
\* that ends after the largest time that can be represented.
UploadedOverflowing ==
    /\ last.op = "add_peer_key"
    /\ last.add_key_req.opt_key # None
    /\ last.add_key_req.opt_seconds_valid # None
    /\ last.at + last.add_key_req.opt_seconds_valid[1] > MaxDuration

\* C33 (as the code has it): add_peer_key with opt_key = Some(k) looks at the
\* lifetime first.  When opt_seconds_valid = Some(s) and now + s overflows,
\* the result is DurationOverflow, whether k is a valid key or not; when
\* there is no such overflow and k is not a valid key, the result is
\* InvalidKey.  In both error cases nothing is written to persistence and the
\* in-memory key store is unchanged.
C33_OverflowBeforeInvalidKey ==
    /\ UploadedOverflowing => last.result = "DurationOverflow"
    /\ (UploadedInvalidKey /\ ~UploadedOverflowing) => last.result = "InvalidKey"
    /\ (last.op = "add_peer_key" /\ last.result \in {"DurationOverflow", "InvalidKey"}) =>
          /\ UploadedOverflowing \/ UploadedInvalidKey
          /\ keys = last.before.keys
          /\ dbKeys = last.before.dbKeys

\* A text that is no key was uploaded with an overflowing lifetime, to a
\* tracker that holds a key, and DurationOverflow came back.
C33_Witness ==
    /\ UploadedInvalidKey
    /\ UploadedOverflowing
    /\ last.result = "DurationOverflow"
    /\ keys # EmptyMap
    /\ keys = last.before.keys /\ dbKeys = last.before.dbKeys

\* C33 (as the specification has it): the key is parsed first, so a text that
\* is no key gives InvalidKey whatever opt_seconds_valid is.
C33_InvalidKeyFirst ==
    UploadedInvalidKey => last.result = "InvalidKey"

C35_LeecherReplacesSeeder ==
    /\ (last.op = "scrape") =>
          \A h \in DOMAIN last.files :
              last.files[h] = (IF h \in DOMAIN torrents THEN SwarmMetadata(0, 0, 1) ELSE zeroed)
    /\ (last.op = "announce" /\ last.draft.event = "Started") =>
          last.stats = SwarmMetadata(0, 0, 1)

\* The scrape of the info-hash of the two announces, made after the clock has
\* advanced between them; the swarm holds one peer, at the leecher's address.
C35_Witness ==
    /\ last.op = "scrape"
    /\ \E h \in DOMAIN last.files :
          /\ h \in DOMAIN torrents
          /\ last.files[h] = SwarmMetadata(0, 0, 1)
          /\ Cardinality(DOMAIN torrents[h].peers) = 1
          /\ \A p \in Values(torrents[h].peers) : p.left > 0 /\ p.updated = MaxTime

(***************************************************************************)
(* Claims checked under SpecWanted.                                        *)
(***************************************************************************)
\* The peers of the swarm of the last announce at another address than the
\* announcing peer's.
OtherPeers ==
    {p \in Values(PeersOf(torrents, last.info_hash)) : p.peer_addr # last.peer.peer_addr}

C37_PersistedNeverDecreases ==
    [][\A h \in DOMAIN dbTorrents :
          h \in DOMAIN dbTorrents' /\ dbTorrents'[h] >= dbTorrents[h]]_vars

\* C38: with persistent_torrent_completed_stat set and every save succeeding,
\* once all announces in flight have returned, the persisted downloaded value
\* of every swarm in memory equals its in-memory downloaded counter, under
\* every interleaving of concurrent announces on the swarm.
C38_PersistedEqualsMemory ==
    calls = EmptyMap =>
        \A h \in DOMAIN torrents :
            h \in DOMAIN dbTorrents /\ dbTorrents[h] = torrents[h].downloaded

(***************************************************************************)
(* Claims checked under SpecLive.                                          *)
(***************************************************************************)
\* The swarm of h is kept although peerless: its counter is persistent and
\* not zero.
KeptForItsCounter(h) ==
    /\ config.tracker_policy.persistent_torrent_completed_stat
    /\ torrents[h].downloaded > 0

\* C39 (as the code has it): when cleanup_torrents keeps being invoked and the
\* clock keeps advancing, every peer that has stopped announcing is eventually
\* removed from its swarm and stays out; and when remove_peerless_torrents is
\* set, a swarm all of whose peers have stopped announcing is eventually
\* removed from the repository, unless persistent_torrent_completed_stat is
\* set and the downloaded counter of the swarm is above 0: such a swarm stays,
\* without peers.
C39_StalePeersRemoved ==
    /\ \A k \in PeerIds :
          (k \in DOMAIN PeersOf(torrents, "h1")) ~> [](k \notin DOMAIN PeersOf(torrents, "h1"))
    /\ <>[](config.tracker_policy.remove_peerless_torrents =>
               \A h \in DOMAIN torrents : KeptForItsCounter(h) /\ torrents[h].peers = EmptyMap)

\* A cleanup has removed, at the end of the clock's range, the swarm of h1,
\* whose two peers it evicted.
C39_Witness ==
    /\ last.op = "cleanup"
    /\ "h1" \in DOMAIN last.before
    /\ Cardinality(DOMAIN last.before["h1"].peers) = 2
    /\ torrents = EmptyMap
    /\ now = MaxTime

\* C39 (as the specification has it): when remove_peerless_torrents is set,
\* every swarm whose peers have all stopped announcing is eventually removed
\* from the repository.
C39_PeerlessSwarmsRemoved ==
    <>[](config.tracker_policy.remove_peerless_torrents => torrents = EmptyMap)

(***************************************************************************)
(* Claims checked under SpecFrame.                                         *)
(***************************************************************************)
\* The operations of the facade that only read.
Queries == {"scrape", "authenticate", "authorize", "get_torrent_peers", "get_torrents_metrics"}

\* The map has the same entry, or no entry, for the key before and after the step.
SameAt(before, after, key) ==
    /\ key \in DOMAIN after <=> key \in DOMAIN before
    /\ key \in DOMAIN before => after[key] = before[key]

\* C40: an announce on h changes nothing but the swarm entry of h and the
\* persisted downloaded counter of h: the other swarms and their persisted
\* counters, the key store and the whitelist, in memory and in the database,
\* are as before.  scrape, authenticate, authorize, get_torrent_peers and
\* get_torrents_metrics change nothing at all; in particular a scrape or a
\* get_torrent_peers of an info-hash without a swarm creates no swarm entry.
C40_Frame ==
    [][/\ last'.op = "announce" =>
             /\ \A g \in InfoHashes \ {last'.info_hash} :
                   SameAt(torrents, torrents', g) /\ SameAt(dbTorrents, dbTorrents', g)
             /\ UNCHANGED <<keys, dbKeys, whitelist, dbWhitelist>>
       /\ last'.op \in Queries =>
             UNCHANGED <<torrents, dbTorrents, keys, dbKeys, whitelist, dbWhitelist>>]_vars

\* An announce on h2 has completed a download and saved the counter, with a
\* swarm of h1 in the repository, a key in the key store and h1, not h2, on
\* the whitelist.
C40_Witness ==
    /\ last.op = "announce"
    /\ last.info_hash = "h2"
    /\ last.stats.downloaded = 1
    /\ last.save = "ok"
    /\ "h1" \in DOMAIN torrents
    /\ DOMAIN keys = {"k1"}
    /\ whitelist = {"h1"}

====
